---- MODULE Spec2Model ----
(***************************************************************************)
(* GetOpts, the table-driven getopt-style argument parser of go-utils.     *)
(*                                                                         *)
(* A token is a sequence of one-character strings, so that the parser's    *)
(* byte-wise tests (arg[0] == '-', strings.Cut(arg, "="), arg[i:]) are     *)
(* computed, not assumed.  A descriptor is identified by its index in the  *)
(* option slice (the code's *Option pointer); the descriptor synthesized   *)
(* by parseOptionTable has the index Len(options) + 1.                     *)
(***************************************************************************)
EXTENDS Integers, Sequences, FiniteSets, TLC

VARIABLES
    options,        \* the caller's option table ([]Option)
    args,           \* the caller's argument list ([]string)
    pc,             \* "parse" | "loop" | "done" | "panic" in GetOpts,
                    \* "print" | "printed" in PrintOpts
    short,          \* map[rune]*Option built by parseOptionTable
    long,           \* map[string]*Option built by parseOptionTable
    defaultOption,  \* the default descriptor
    handled,        \* map[*Option]bool, as the set of its keys
    argIx,          \* the cursor into args (0-based, as in the code)
    calls,          \* history: the handler invocations, in order
    reads,          \* history: the reads of args, in order
    err,            \* the error GetOpts returns
    rest,           \* the slice GetOpts returns
    cells,          \* the variables behind the SetFlag/SetString pointers
    output,         \* the lines PrintOpts has written to its io.Writer
    peer            \* a second GetOpts call on the same table: its argument
                    \* list and its own state record

vars == <<options, args, pc, short, long, defaultOption, handled, argIx,
          calls, reads, err, rest, cells, output, peer>>

----------------------------------------------------------------------------
(* Bounds of the model. *)

MaxArgs == 3

----------------------------------------------------------------------------
(* Values. *)

\* a nil *Option
Nil == 0

\* Option.Short == 0: no short name
NoShort == ""

\* Option.Long == "": no long name
NoLong == <<>>

\* a nil error
NoErr == [kind |-> "nil", name |-> <<>>, cause |-> ""]

\* fmt.Errorf(...): the kind is the message, the name its %s or %c argument,
\* the cause the error wrapped by %w
Errorf(kind, name, cause) == [kind |-> kind, name |-> name, cause |-> cause]

\* a nil slice, and a slice holding elems
NilSlice == [nil |-> TRUE, elems |-> <<>>]
Slice(elems) == [nil |-> FALSE, elems |-> elems]

\* Option.Help == "": no help text
NoHelp == <<>>

\* type Option struct; Handler is "nil", or names what the caller's function
\* does with every value: "accept" returns nil, "reject" returns an error,
\* "SetFlag" and "SetString" are the closures of those constructors, each
\* on a variable of its own
Option(s, l, v, r, h) ==
    [Short |-> s, Long |-> l, Value |-> v, Repeatable |-> r, Handler |-> h,
     Help |-> NoHelp]

\* the descriptor parseOptionTable makes when the table has no default
SynthOption == Option(NoShort, NoLong, FALSE, FALSE, "additional")

\* the pointer to the synthesized descriptor
SynthIx(opts) == Len(opts) + 1

\* *opt
Deref(opts, opt) == IF opt = SynthIx(opts) THEN SynthOption ELSE opts[opt]

\* m[key] of a Go map of pointers: nil when the key is absent
Lookup(m, key) == IF key \in DOMAIN m THEN m[key] ELSE Nil

\* m[key] = v
Store(m, key, v) ==
    [x \in DOMAIN m \cup {key} |-> IF x = key THEN v ELSE m[x]]

\* make(map[...]*Option)
EmptyMap == [x \in {} |-> Nil]

\* a synthesized default handler that lets the argument pass
HandlerResult_lenient(h, value) ==
    CASE h = "reject" -> "rejected"
      [] OTHER -> ""

\* the error a handler returns for a value ("" is nil)
HandlerResult(h, value) ==
    CASE h = "accept" -> ""
      [] h = "reject" -> "rejected"
      [] h = "additional" -> "Additional arguments not allowed"
      [] h = "SetFlag" -> ""
      [] h = "SetString" -> ""

\* a handler that flips the flag: *flagp = !*flagp
SetFlag_toggle(cs, flagp, s) ==
    Store(cs, flagp, ~(flagp \in DOMAIN cs /\ cs[flagp]))

\* the closure of SetFlag(flagp), called with s: *flagp = true
SetFlag(cs, flagp, s) == Store(cs, flagp, TRUE)

\* the closure of SetString(stringp), called with s: *stringp = s
SetString(cs, stringp, s) == Store(cs, stringp, s)

\* what a handler's call does to the caller's variables
HandlerEffect(h, cs, p, value) ==
    CASE h = "SetFlag" -> SetFlag(cs, p, value)
      [] h = "SetString" -> SetString(cs, p, value)
      [] OTHER -> cs

----------------------------------------------------------------------------
(* parseOptionTable *)

\* the duplicate test left out: a later definition replaces the earlier
Duplicate_never(m, key) == FALSE

\* short[opt.Short] != nil, long[opt.Long] != nil
Duplicate(m, key) == Lookup(m, key) # Nil

RECURSIVE parseLoop(_, _, _)
parseLoop(opts, optIx, acc) ==
    IF optIx > Len(opts) THEN acc
    ELSE
      LET opt == opts[optIx]
          isDefault == opt.Short = NoShort /\ opt.Long = NoLong
          Panic(msg) == [acc EXCEPT !.panic = msg]
          d1 == IF isDefault THEN optIx ELSE acc.defaultOption
          s1 == IF opt.Short # NoShort
                  THEN Store(acc.short, opt.Short, optIx) ELSE acc.short
          l1 == IF opt.Long # NoLong
                  THEN Store(acc.long, opt.Long, optIx) ELSE acc.long
      IN  IF opt.Handler = "nil" THEN Panic("Option without handler")
          ELSE IF isDefault /\ acc.defaultOption # Nil
            THEN Panic("Multiple default handlers")
          ELSE IF opt.Short # NoShort /\ Duplicate(acc.short, opt.Short)
            THEN Panic("Multiple definitions for short option")
          ELSE IF opt.Short = "-" /\ opt.Long # NoLong
            THEN Panic("Long name defined for lone dash")
          ELSE IF opt.Short = "-" /\ opt.Value
            THEN Panic("Lone dash cannot take a value")
          ELSE IF opt.Long # NoLong /\ Duplicate(acc.long, opt.Long)
            THEN Panic("Multiple definitions for long")
          ELSE parseLoop(opts, optIx + 1,
                 [panic |-> "", short |-> s1, long |-> l1,
                  defaultOption |-> d1])

\* a table parser that stops at the first defect instead of panicking
parseOptionTable_unchecked(opts) ==
    LET t == parseLoop(opts, 1,
               [panic |-> "", short |-> EmptyMap, long |-> EmptyMap,
                defaultOption |-> Nil])
    IN  [t EXCEPT !.panic = "",
                  !.defaultOption = IF @ = Nil THEN SynthIx(opts) ELSE @]

parseOptionTable(opts) ==
    LET t == parseLoop(opts, 1,
               [panic |-> "", short |-> EmptyMap, long |-> EmptyMap,
                defaultOption |-> Nil])
    IN  IF t.panic = "" /\ t.defaultOption = Nil
          THEN [t EXCEPT !.defaultOption = SynthIx(opts)]
          ELSE t

----------------------------------------------------------------------------
(* GetOpts: the state of one call is the record                            *)
(*   [pc, argIx, handled, calls, reads, err, rest, cells]                  *)
(* and tbl is [options, short, long, defaultOption].                       *)

\* len(arg) > 0 && arg[0] == '-'
IsOptionToken(arg) == Len(arg) > 0 /\ arg[1] = "-"

\* len(arg) > 1 && arg[1] == '-'
IsLongToken(arg) == Len(arg) > 1 /\ arg[2] = "-"

\* len(arg) == 2, for a token that starts with "--"
IsTerminator(arg) == Len(arg) = 2

\* a cut at the last "=" instead of the first (strings.LastIndex)
Cut_last(str) ==
    LET hits == {j \in 1..Len(str) : str[j] = "="}
    IN  IF hits = {} THEN <<str, <<>>, FALSE>>
        ELSE LET j == CHOOSE x \in hits : \A y \in hits : x >= y
             IN  <<SubSeq(str, 1, j - 1), SubSeq(str, j + 1, Len(str)), TRUE>>

\* strings.Cut(str, "="): <<before, after, found>>, cut at the first "="
Cut(str) ==
    LET hits == {j \in 1..Len(str) : str[j] = "="}
    IN  IF hits = {} THEN <<str, <<>>, FALSE>>
        ELSE LET j == CHOOSE x \in hits : \A y \in hits : x <= y
             IN  <<SubSeq(str, 1, j - 1), SubSeq(str, j + 1, Len(str)), TRUE>>

\* a slice that starts one token early: args[argIx-1:]
SliceFrom_early(as, ix) == SubSeq(as, ix, Len(as))

\* args[argIx:], argIx 0-based
SliceFrom(as, ix) == SubSeq(as, ix + 1, Len(as))

\* a repeat test that forgets the Repeatable attribute: handled[opt]
IsRepeat_always(tbl, hnd, opt) == opt \in hnd

\* the repeat test with the negation lost: opt.Repeatable && handled[opt]
IsRepeat_inverted(tbl, hnd, opt) ==
    Deref(tbl.options, opt).Repeatable /\ opt \in hnd

\* !opt.Repeatable && handled[opt]
IsRepeat(tbl, hnd, opt) ==
    ~Deref(tbl.options, opt).Repeatable /\ opt \in hnd

\* the assignment handled[opt] = true left out
MarkHandled_skip(hnd, opt) == hnd

\* handled[opt] = true
MarkHandled(hnd, opt) == hnd \cup {opt}

\* the error is noted and the loop goes on
Fail_continue(s, e) == [s EXCEPT !.err = e]

\* return nil, e
Fail(s, e) == [s EXCEPT !.pc = "done", !.err = e, !.rest = NilSlice]

\* a value read without the increment: the token is scanned again
ReadArg_peek(s, role) ==
    [s EXCEPT !.argIx = IF role = "value" THEN s.argIx ELSE s.argIx + 1,
              !.reads = Append(s.reads, [ix |-> s.argIx, as |-> role])]

\* the read args[argIx] followed by argIx++
ReadArg(s, role) ==
    [s EXCEPT !.argIx = s.argIx + 1,
              !.reads = Append(s.reads, [ix |-> s.argIx, as |-> role])]

\* the invocation entered ahead of the earlier ones
Invoke_front(tbl, s, opt, value) ==
    [s EXCEPT !.calls = <<[opt |-> opt, value |-> value]>> \o s.calls,
              !.cells = HandlerEffect(Deref(tbl.options, opt).Handler,
                                      s.cells, opt, value)]

\* opt.Handler(value): the invocation is logged
Invoke(tbl, s, opt, value) ==
    [s EXCEPT !.calls = Append(s.calls, [opt |-> opt, value |-> value]),
              !.cells = HandlerEffect(Deref(tbl.options, opt).Handler,
                                      s.cells, opt, value)]

\* the error of the last opt.Handler(value), "" when nil
Returned(tbl, opt, value) ==
    HandlerResult(Deref(tbl.options, opt).Handler, value)

\* return args[argIx:], nil
terminatorStep(as, s) ==
    [s EXCEPT !.pc = "done", !.rest = Slice(SliceFrom(as, s.argIx))]

\* the test left out: the value of --flag=value is silently dropped
Unexpected_never(takes, matched) == FALSE

\* !opt.Value && matched
Unexpected(takes, matched) == ~takes /\ matched

\* the end-of-arguments test one token early: argIx >= len(args) - 1
NoMoreArgs_early(as, ix) == ix >= Len(as) - 1

\* argIx == len(args)
NoMoreArgs(as, ix) == ix = Len(as)

\* the long-option branch; s has read the token arg
longStep(tbl, as, s, arg) ==
    LET cut == Cut(SubSeq(arg, 3, Len(arg)))
        optname == cut[1]
        matched == cut[3]
        opt == Lookup(tbl.long, optname)
    IN  IF opt = Nil
          THEN Fail(s, Errorf("Unknown option --%s", optname, ""))
        ELSE IF IsRepeat(tbl, s.handled, opt)
          THEN Fail(s, Errorf("Repeated but unrepeatable option --%s",
                              optname, ""))
        ELSE
          LET s1 == [s EXCEPT !.handled = MarkHandled(s.handled, opt)]
              o == Deref(tbl.options, opt)
          IN  IF Unexpected(o.Value, matched)
                THEN Fail(s1, Errorf("Option --%s does not take a value",
                                     optname, ""))
              ELSE IF o.Value /\ ~matched /\ NoMoreArgs(as, s1.argIx)
                THEN Fail(s1, Errorf("Missing value for option --%s",
                                     optname, ""))
              ELSE
                LET take == o.Value /\ ~matched
                    value == IF take THEN as[s1.argIx + 1] ELSE cut[2]
                    s2 == IF take THEN ReadArg(s1, "value") ELSE s1
                    s3 == Invoke(tbl, s2, opt, value)
                    e == Returned(tbl, opt, value)
                IN  IF e # ""
                      THEN Fail(s3, Errorf("Rejected option --%s: %w",
                                           optname, e))
                      ELSE s3

\* the error a handler returned, passed on as it is
HandlerError(e) == Errorf(e, <<>>, "")

\* the letters always start after the dash: i := 1
BundleStart_one(arg) == 1

\* i := 0; if len(arg) > 1 { i++ }
BundleStart(arg) == IF Len(arg) > 1 THEN 1 ELSE 0

\* the unknown-letter test with the bound one too low: i < 1
IsFirstLetter_low(i) == i < 1

\* the unknown-letter test of the bundle loop: i < 2
IsFirstLetter(i) == i < 2

\* the test left out: a later value option silently replaces the earlier
Competes_never(needValue) == FALSE

\* needValue != nil, when a value-taking letter is met
Competes(needValue) == needValue # Nil

\* the for loop over the letters of a short bundle; i is 0-based.
\* The result is [s, i, needValue]; s.pc = "done" when the loop returned.
RECURSIVE bundleLoop(_, _, _, _, _)
bundleLoop(tbl, arg, s, i, needValue) ==
    LET Out(st, ix, nv) == [s |-> st, i |-> ix, needValue |-> nv]
    IN  IF i = Len(arg) THEN Out(s, i, needValue)
        ELSE
          LET optname == arg[i + 1]
              opt == Lookup(tbl.short, optname)
          IN  IF opt = Nil
                THEN IF IsFirstLetter(i)
                       THEN Out(Fail(s, Errorf("Illegal option", <<>>, "")),
                                i, needValue)
                       ELSE Out(s, i, needValue)
              ELSE IF IsRepeat(tbl, s.handled, opt)
                THEN Out(Fail(s, Errorf("Repeated but unrepeatable option -%c",
                                        <<optname>>, "")),
                         i + 1, needValue)
              ELSE
                LET s1 == [s EXCEPT !.handled = MarkHandled(s.handled, opt)]
                IN  IF Deref(tbl.options, opt).Value
                      THEN IF Competes(needValue)
                             THEN Out(Fail(s1, Errorf(
                                    "Multiple short options compete for a value",
                                    <<>>, "")), i + 1, needValue)
                             ELSE bundleLoop(tbl, arg, s1, i + 1, opt)
                    ELSE
                      LET s2 == Invoke(tbl, s1, opt, <<>>)
                          e == Returned(tbl, opt, <<>>)
                      IN  IF e # ""
                            THEN Out(Fail(s2, HandlerError(e)), i + 1,
                                     needValue)
                            ELSE bundleLoop(tbl, arg, s2, i + 1, needValue)

\* the attached value taken one character late: arg[i+1:]
Attached_late(arg, i) == SubSeq(arg, i + 2, Len(arg))

\* arg[i:], i 0-based
Attached(arg, i) == SubSeq(arg, i + 1, Len(arg))

\* the test with <= for <, which takes the empty arg[len(arg):] for a value
HasAttached_incl(arg, i) == i <= Len(arg)

\* i < len(arg): characters remain after the option letters
HasAttached(arg, i) == i < Len(arg)

\* the short-option branch; s has read the token arg
bundleStep(tbl, as, s, arg) ==
    LET r == bundleLoop(tbl, arg, s, BundleStart(arg), Nil)
        s1 == r.s
    IN  IF s1.pc = "done" \/ r.needValue = Nil THEN s1
        ELSE IF ~HasAttached(arg, r.i) /\ s1.argIx = Len(as)
          THEN Fail(s1, Errorf("Missing value for option -%c",
                      <<Deref(tbl.options, r.needValue).Short>>, ""))
        ELSE
          LET here == HasAttached(arg, r.i)
              value == IF here THEN Attached(arg, r.i) ELSE as[s1.argIx + 1]
              s2 == IF here THEN s1 ELSE ReadArg(s1, "value")
              s3 == Invoke(tbl, s2, r.needValue, value)
              e == Returned(tbl, r.needValue, value)
          IN  IF e # "" THEN Fail(s3, HandlerError(e)) ELSE s3

\* the non-option branch; s has read the token arg
defaultStep(tbl, s, arg) ==
    LET opt == tbl.defaultOption
    IN  IF IsRepeat(tbl, s.handled, opt)
          THEN Fail(s, Errorf("Repeated but unrepeatable default option",
                              <<>>, ""))
        ELSE
          LET s1 == [s EXCEPT !.handled = MarkHandled(s.handled, opt)]
              s2 == Invoke(tbl, s1, opt, arg)
              e == Returned(tbl, opt, arg)
          IN  IF e # "" THEN Fail(s2, HandlerError(e)) ELSE s2

\* return nil, nil after the loop
returnStep(s) == [s EXCEPT !.pc = "done", !.rest = NilSlice]

\* which branch of the loop body the token arg takes
Branch(arg) ==
    IF IsOptionToken(arg)
      THEN IF IsLongToken(arg)
             THEN IF IsTerminator(arg) THEN "terminator" ELSE "long"
             ELSE "short"
      ELSE "default"

\* one pass of `for argIx < len(args)`, or the return after it
Iter(tbl, as, s) ==
    IF s.argIx >= Len(as) THEN returnStep(s)
    ELSE
      LET arg == as[s.argIx + 1]
          s1 == ReadArg(s, "token")
          b == Branch(arg)
      IN  CASE b = "terminator" -> terminatorStep(as, s1)
            [] b = "long" -> longStep(tbl, as, s1, arg)
            [] b = "short" -> bundleStep(tbl, as, s1, arg)
            [] b = "default" -> defaultStep(tbl, s1, arg)

\* handled := make(map[*Option]bool); argIx := 0; the caller's variables
\* hold their zero values, which is what an absent cell reads as
Start == [pc |-> "loop", argIx |-> 0, handled |-> {}, calls |-> <<>>,
          reads |-> <<>>, err |-> NoErr, rest |-> NilSlice,
          cells |-> EmptyMap]

RECURSIVE RunFrom(_, _, _)
RunFrom(tbl, as, s) ==
    IF s.pc = "done" THEN s ELSE RunFrom(tbl, as, Iter(tbl, as, s))

\* the table record of a validated option slice
Table(opts) ==
    LET t == parseOptionTable(opts)
    IN  [options |-> opts, short |-> t.short, long |-> t.long,
         defaultOption |-> t.defaultOption]

\* GetOpts(opts, as) for a table that parseOptionTable accepts
GetOpts(opts, as) == RunFrom(Table(opts), as, Start)

----------------------------------------------------------------------------
(* The option tables and the argument lists the calls are made with.  The  *)
(* descriptors follow the table of TestOpts (h/help, a lone dash, a        *)
(* default handler) and the sort(1) letters of the package comment         *)
(* (-n, -r, -k value); opt is a value option with both names.              *)

optH(rep, h) == Option("h", <<"h", "e", "l", "p">>, FALSE, rep, h)
optK(rep, h) == Option("k", NoLong, TRUE, rep, h)
optN(rep, h) == Option("n", NoLong, FALSE, rep, h)
optR(rep, h) == Option("r", NoLong, FALSE, rep, h)
optO(rep, h) == Option("o", <<"o", "p", "t">>, TRUE, rep, h)
optDash(rep, h) == Option("-", NoLong, FALSE, rep, h)
optDefault(rep, h) == Option(NoShort, NoLong, FALSE, rep, h)

\* the indexes of the descriptors in the tables below
ixH == 1
ixK == 2
ixN == 3
ixR == 4
ixO == 5

\* no descriptor is Repeatable
TblStrict ==
    << optH(FALSE, "accept"), optK(FALSE, "accept"), optN(FALSE, "accept"),
       optR(FALSE, "accept"), optO(FALSE, "accept"), optDash(FALSE, "accept"),
       optDefault(FALSE, "accept") >>

\* every descriptor is Repeatable
TblRep ==
    << optH(TRUE, "accept"), optK(TRUE, "accept"), optN(TRUE, "accept"),
       optR(TRUE, "accept"), optO(TRUE, "accept"), optDash(TRUE, "accept"),
       optDefault(TRUE, "accept") >>

\* no default handler and no lone dash; two handlers reject their values
TblBare ==
    << optH(FALSE, "accept"), optK(TRUE, "accept"), optN(FALSE, "accept"),
       optR(TRUE, "reject"), optO(FALSE, "reject") >>

Tables == {TblStrict, TblRep, TblBare}

tTerm == <<"-", "-">>
tA == <<"a">>
tB == <<"b">>
t2 == <<"2">>
tEmpty == <<>>
tBogus == <<"-", "-", "b", "o", "g", "u", "s">>
tBogusA == <<"-", "-", "b", "o", "g", "u", "s", "=", "a">>
tZ == <<"-", "z">>
tN == <<"-", "n">>
tK == <<"-", "k">>
tH == <<"-", "h">>
tHH == <<"-", "h", "h">>
tNH == <<"-", "n", "h">>
tHelp == <<"-", "-", "h", "e", "l", "p">>
tHelpA == <<"-", "-", "h", "e", "l", "p", "=", "a">>
tOpt == <<"-", "-", "o", "p", "t">>
tOptA == <<"-", "-", "o", "p", "t", "=", "a">>
tOptNone == <<"-", "-", "o", "p", "t", "=">>
tOptEq == <<"-", "-", "o", "p", "t", "=", "a", "=", "b">>
tAEqB == <<"a", "=", "b">>
tNKR == <<"-", "n", "k", "r">>
tNRK == <<"-", "n", "r", "k">>
tNK2R == <<"-", "n", "k", "2", "r">>
tK2 == <<"-", "k", "2">>
tKO == <<"-", "k", "o">>
tKK == <<"-", "k", "k">>

\* every argument list of at most MaxArgs tokens of T
ArgLists(T) == UNION {[1..n -> T] : n \in 0..MaxArgs}

TokensBase == {tTerm, tA, tB, tBogus, tBogusA, tZ, tN, tK, tOpt}
TokensLong == {tTerm, tA, tAEqB, tEmpty, tOpt, tOptA, tOptNone, tOptEq, tK}
TokensRepeat == {tTerm, tA, tH, tHH, tNH, tHelp, tHelpA, tOpt, tK}
TokensBundle == {tTerm, t2, tNKR, tNRK, tNK2R, tK, tK2, tKO, tKK, tOpt}

----------------------------------------------------------------------------
(* The state machine: one GetOpts call on a table and an argument list.    *)

\* no second call is under way
NoPeer == [args |-> <<>>, s |-> [Start EXCEPT !.pc = "none"]]

\* one map for all calls, as a package-level variable would be
OwnHandled_shared(mine, theirs) == mine \cup theirs

\* the handled map a call consults is the one it made itself: the local
\* variable handled of GetOpts, whatever another call has in its own
OwnHandled(mine, theirs) == mine

Cur == [pc |-> pc, argIx |-> argIx,
        handled |-> OwnHandled(handled, peer.s.handled), calls |-> calls,
        reads |-> reads, err |-> err, rest |-> rest, cells |-> cells]

Tbl == [options |-> options, short |-> short, long |-> long,
        defaultOption |-> defaultOption]

Become(s) ==
    /\ pc' = s.pc
    /\ argIx' = s.argIx
    /\ handled' = s.handled
    /\ calls' = s.calls
    /\ reads' = s.reads
    /\ err' = s.err
    /\ rest' = s.rest
    /\ cells' = s.cells

\* the entry of a function of the package, called on a table of Tbls and
\* an argument list of Lists
InitCalls(entry, Tbls, Lists, Peers) ==
    /\ options \in Tbls
    /\ args \in Lists
    /\ pc = entry
    /\ short = EmptyMap
    /\ long = EmptyMap
    /\ defaultOption = Nil
    /\ handled = {}
    /\ argIx = 0
    /\ calls = <<>>
    /\ reads = <<>>
    /\ err = NoErr
    /\ rest = NilSlice
    /\ cells = EmptyMap
    /\ output = <<>>
    /\ peer \in Peers

\* the same, with no second call
InitAt(entry, Tbls, Lists) == InitCalls(entry, Tbls, Lists, {NoPeer})

\* a GetOpts call
InitOn(Tbls, Lists) == InitAt("parse", Tbls, Lists)

InitWith(Tbls, T) == InitOn(Tbls, ArgLists(T))

\* the synthesized default descriptor appended to the caller's slice
Installed_appended(opts) ==
    IF parseOptionTable(opts).defaultOption = SynthIx(opts)
      THEN Append(opts, SynthOption)
      ELSE opts

\* the caller's slice after parseOptionTable: the descriptors are read
\* through pointers and none is assigned to; the synthesized default is
\* an object of its own (defaultOption = &Option{...})
Installed(opts) == opts

\* short, long, defaultOption := parseOptionTable(options), which may panic
ParseTable ==
    /\ pc = "parse"
    /\ LET t == parseOptionTable(options)
       IN  IF t.panic # ""
             THEN /\ pc' = "panic"
                  /\ UNCHANGED <<short, long, defaultOption, handled, argIx,
                                 calls, reads, err, rest, cells>>
             ELSE /\ short' = t.short
                  /\ long' = t.long
                  /\ defaultOption' = t.defaultOption
                  /\ Become(Start)
    /\ options' = Installed(options)
    /\ UNCHANGED <<args, output, peer>>

\* the token the loop is about to read
AtToken(b) ==
    /\ pc = "loop"
    /\ argIx < Len(args)
    /\ Branch(args[argIx + 1]) = b

Terminator ==
    /\ AtToken("terminator")
    /\ Become(terminatorStep(args, ReadArg(Cur, "token")))
    /\ UNCHANGED <<options, args, short, long, defaultOption, output, peer>>

LongOption ==
    /\ AtToken("long")
    /\ Become(longStep(Tbl, args, ReadArg(Cur, "token"), args[argIx + 1]))
    /\ UNCHANGED <<options, args, short, long, defaultOption, output, peer>>

ShortBundle ==
    /\ AtToken("short")
    /\ Become(bundleStep(Tbl, args, ReadArg(Cur, "token"), args[argIx + 1]))
    /\ UNCHANGED <<options, args, short, long, defaultOption, output, peer>>

DefaultArg ==
    /\ AtToken("default")
    /\ Become(defaultStep(Tbl, ReadArg(Cur, "token"), args[argIx + 1]))
    /\ UNCHANGED <<options, args, short, long, defaultOption, output, peer>>

Return ==
    /\ pc = "loop"
    /\ argIx >= Len(args)
    /\ Become(returnStep(Cur))
    /\ UNCHANGED <<options, args, short, long, defaultOption, output, peer>>

Next ==
    \/ ParseTable
    \/ Terminator
    \/ LongOption
    \/ ShortBundle
    \/ DefaultArg
    \/ Return

Init == InitWith(Tables, TokensBase)
Spec == Init /\ [][Next]_vars

InitLong == InitWith(Tables, TokensLong)
SpecLong == InitLong /\ [][Next]_vars

InitRepeat == InitWith(Tables, TokensRepeat)
SpecRepeat == InitRepeat /\ [][Next]_vars

InitBundle == InitWith(Tables, TokensBundle)
SpecBundle == InitBundle /\ [][Next]_vars

\* the actions compute what the function GetOpts computes
RunAgrees ==
    pc = "done" =>
      LET r == GetOpts(options, args)
      IN  r.calls = calls /\ r.err = err /\ r.rest = rest /\ r.reads = reads

----------------------------------------------------------------------------
(* What the claims speak of, read off the arguments and the histories.     *)

\* the scan is about to read the token tok at the 0-based position argIx
Reaches(tok) == pc = "loop" /\ argIx < Len(args) /\ args[argIx + 1] = tok

\* the handler invocations the step being taken adds
NewCalls == SubSeq(calls', Len(calls) + 1, Len(calls'))

\* the step being taken adds invocations and removes none
CallsGrow == Len(calls') >= Len(calls) /\ SubSeq(calls', 1, Len(calls)) = calls

----------------------------------------------------------------------------
(* C1: when the scan reaches a token that is exactly "--" at position p,   *)
(* the call ends there without an error, returns the tokens after p in     *)
(* their order, and invokes no handler in doing so.                        *)
C1_TerminatorEndsScan ==
    [][Reaches(<<"-", "-">>) =>
          /\ pc' = "done"
          /\ err' = NoErr
          /\ rest'.elems = SubSeq(args, argIx + 2, Len(args))
          /\ Len(rest'.elems) = Len(args) - (argIx + 1)
          /\ calls' = calls
          /\ argIx' = argIx + 1]_vars

\* ["a", "--", "--bogus"]: a went to the default handler, --bogus came back
C1_Witness ==
    /\ pc = "done"
    /\ args = <<tA, tTerm, tBogus>>
    /\ err = NoErr
    /\ rest = Slice(<<tBogus>>)
    /\ calls = <<[opt |-> defaultOption, value |-> tA]>>

----------------------------------------------------------------------------
\* the token starts with a dash
Dashed(tok) == tok # <<>> /\ Head(tok) = "-"

\* no token of the argument list is exactly "--"
NoTerminator == \A j \in 1..Len(args) : args[j] # <<"-", "-">>

\* the tokens the scan has read as tokens in their own right (not as an
\* option's value) that do not start with a dash, in the order read
OwnNonOptions ==
    LET Own(r) == r.as = "token" /\ ~Dashed(args[r.ix + 1])
        sel == SelectSeq(reads, Own)
    IN  [j \in 1..Len(sel) |-> args[sel[j].ix + 1]]

\* the values the default handler has been invoked with, in order
DefaultValues ==
    LET Dflt(c) == c.opt = defaultOption
        sel == SelectSeq(calls, Dflt)
    IN  [j \in 1..Len(sel) |-> sel[j].value]

\* the table has been validated and the scan is under way or over
Scanning == pc \in {"loop", "done"}

\* at most the first element of a sequence
FirstOnly(seq) == IF seq = <<>> THEN <<>> ELSE <<Head(seq)>>

(* C2 as stated: for every valid table and argument list with no "--",     *)
(* when the call returns every non-option token the scan came to has gone  *)
(* to the default handler, in order, and the returned leftover is empty.   *)
C2_AsStated ==
    (pc = "done" /\ NoTerminator) =>
        /\ DefaultValues = OwnNonOptions
        /\ rest.elems = <<>>

(* C2 amended: with no "--" in the list the leftover is empty, and the     *)
(* non-option tokens the scan comes to go to the default handler in their  *)
(* order: all of them when the default descriptor is Repeatable, only the  *)
(* first when it is not (the second one ends the scan).                    *)
C2_DefaultRouting ==
    (Scanning /\ NoTerminator) =>
        /\ pc = "done" => rest.elems = <<>>
        /\ DefaultValues =
             IF Deref(options, defaultOption).Repeatable
               THEN OwnNonOptions
               ELSE FirstOnly(OwnNonOptions)

\* ["a", "-n", "b"] with a Repeatable default: a and b are routed, in order
C2_Witness ==
    /\ pc = "done"
    /\ options = TblRep
    /\ args = <<tA, tN, tB>>
    /\ err = NoErr
    /\ DefaultValues = <<tA, tB>>
    /\ rest.elems = <<>>

----------------------------------------------------------------------------
\* the error of a second dispatch of a default descriptor not Repeatable
RepeatedDefault ==
    Errorf("Repeated but unrepeatable default option", <<>>, "")

\* the table declares its default descriptor (none was synthesized)
DeclaredDefault == defaultOption \in 1..Len(options)

(* C6: with a declared default descriptor that is not Repeatable, the      *)
(* second non-option argument ends the scan with the repeated-option error *)
(* and the default handler has run for the first one only; with a          *)
(* Repeatable one, every non-option argument the scan comes to is          *)
(* dispatched and that error never arises.                                 *)
C6_DefaultRepeatability ==
    (Scanning /\ DeclaredDefault) =>
        IF ~options[defaultOption].Repeatable
          THEN Len(OwnNonOptions) >= 2 =>
                 /\ pc = "done"
                 /\ err = RepeatedDefault
                 /\ rest = NilSlice
                 /\ Len(OwnNonOptions) = 2
                 /\ DefaultValues = <<OwnNonOptions[1]>>
          ELSE /\ DefaultValues = OwnNonOptions
               /\ err # RepeatedDefault

\* ["a", "-n", "b"] with the default not Repeatable: b is refused
C6_Witness ==
    /\ pc = "done"
    /\ options = TblStrict
    /\ args = <<tA, tN, tB>>
    /\ err = RepeatedDefault
    /\ calls = <<[opt |-> defaultOption, value |-> tA],
                 [opt |-> ixN, value |-> <<>>]>>

----------------------------------------------------------------------------
\* the name of a long-option token: what follows "--", up to the first "="
LongName(tok) ==
    LET body == SubSeq(tok, 3, Len(tok))
        n == CHOOSE k \in 0..Len(body) :
               /\ \A j \in 1..k : body[j] # "="
               /\ k < Len(body) => body[k + 1] = "="
    IN  SubSeq(body, 1, n)

\* tok starts with "--" and is longer: a long-option token
LongShaped(tok) == Len(tok) > 2 /\ tok[1] = "-" /\ tok[2] = "-"

\* tok starts with one dash and has at least one more character
BundleShaped(tok) == Len(tok) >= 2 /\ tok[1] = "-" /\ tok[2] # "-"

(* C7: a long-option token whose name is not in the long index ends the    *)
(* scan with the unknown-option error that carries that name, and a short  *)
(* bundle whose first character is not in the short index ends it with     *)
(* the illegal-option error; neither step invokes a handler.               *)
C7_UnknownOption ==
    [][(pc = "loop" /\ argIx < Len(args)) =>
          LET tok == args[argIx + 1]
          IN  /\ (LongShaped(tok) /\ LongName(tok) \notin DOMAIN long) =>
                    /\ pc' = "done"
                    /\ err' = Errorf("Unknown option --%s", LongName(tok), "")
                    /\ rest' = NilSlice
                    /\ calls' = calls
              /\ (BundleShaped(tok) /\ tok[2] \notin DOMAIN short) =>
                    /\ pc' = "done"
                    /\ err' = Errorf("Illegal option", <<>>, "")
                    /\ rest' = NilSlice
                    /\ calls' = calls]_vars

\* ["a", "--bogus=a"]: the error names bogus, and only a was dispatched
C7_Witness ==
    /\ pc = "done"
    /\ args = <<tA, tBogusA>>
    /\ err = Errorf("Unknown option --%s", <<"b", "o", "g", "u", "s">>, "")
    /\ calls = <<[opt |-> defaultOption, value |-> tA]>>

----------------------------------------------------------------------------
\* the scan read the token at the 1-based position p as a token in its own
\* right
ReadAsToken(p) ==
    \E j \in 1..Len(reads) : reads[j].ix = p - 1 /\ reads[j].as = "token"

\* tok names a long option of the table that takes a value
ValueLong(tok) ==
    /\ LongShaped(tok)
    /\ LongName(tok) \in DOMAIN long
    /\ Deref(options, long[LongName(tok)]).Value

\* tok has an "=" after its "--"
HasEq(tok) == \E j \in 3..Len(tok) : tok[j] = "="

\* what follows the first "=" of a long-option token
LongValue(tok) ==
    SubSeq(tok, 3 + Len(LongName(tok)) + 1, Len(tok))

\* args with the token --opt=V at p written as the two tokens --opt, V
SplitAt(p) ==
    SubSeq(args, 1, p - 1)
      \o << <<"-", "-">> \o LongName(args[p]), LongValue(args[p]) >>
      \o SubSeq(args, p + 1, Len(args))

\* args with the tokens --opt, V at p and p + 1 written as one, --opt=V
JoinAt(p) ==
    SubSeq(args, 1, p - 1)
      \o << args[p] \o <<"=">> \o args[p + 1] >>
      \o SubSeq(args, p + 2, Len(args))

\* a call's outcome is that of the call under way: the same handler
\* invocations in the same order, the same error, the same returned slice
SameOutcome(r) == r.calls = calls /\ r.err = err /\ r.rest = rest

(* C3: for a long option that takes a value, writing --opt=V or the two    *)
(* tokens --opt, V at a position the scan reads as an option gives the     *)
(* same handler invocations and the same result, the rest of the argument  *)
(* list being equal.                                                       *)
C3_LongValueForms ==
    pc = "done" =>
      \A p \in 1..Len(args) :
        (ReadAsToken(p) /\ ValueLong(args[p])) =>
          /\ HasEq(args[p]) => SameOutcome(GetOpts(options, SplitAt(p)))
          /\ (~HasEq(args[p]) /\ p < Len(args)) =>
                SameOutcome(GetOpts(options, JoinAt(p)))

\* ["--opt=a=b", "a"]: opt is given a=b, as ["--opt", "a=b", "a"] gives it
C3_Witness ==
    /\ pc = "done"
    /\ options = TblRep
    /\ args = <<tOptEq, tA>>
    /\ SplitAt(1) = <<tOpt, tAEqB, tA>>
    /\ err = NoErr
    /\ calls = <<[opt |-> ixO, value |-> tAEqB],
                 [opt |-> defaultOption, value |-> tA]>>

----------------------------------------------------------------------------
RepeatedLong(name) ==
    Errorf("Repeated but unrepeatable option --%s", name, "")

RepeatedShort(c) ==
    Errorf("Repeated but unrepeatable option -%c", <<c>>, "")

\* e is one of the three repeated-option errors
IsRepeatedErr(e) ==
    e.kind \in {"Repeated but unrepeatable option --%s",
                "Repeated but unrepeatable option -%c",
                "Repeated but unrepeatable default option"}

\* the descriptor a repeated-option error is about
RepeatedOf(e) ==
    CASE e.kind = "Repeated but unrepeatable option --%s" ->
           Lookup(long, e.name)
      [] e.kind = "Repeated but unrepeatable option -%c" ->
           Lookup(short, e.name[1])
      [] e.kind = "Repeated but unrepeatable default option" ->
           defaultOption

\* the table with the descriptor d marked Repeatable
MarkRepeatable(opts, d) == [opts EXCEPT ![d].Repeatable = TRUE]

\* how often the handler of d was invoked in a sequence of invocations
Count(seq, d) ==
    LET Of(c) == c.opt = d
    IN  Len(SelectSeq(seq, Of))

\* the positions of tok whose characters the bundle loop looks up and finds
LetterPositions(tok) ==
    IF Len(tok) = 1 THEN {j \in {1} : tok[j] \in DOMAIN short}
    ELSE {j \in 2..Len(tok) : \A k \in 2..j : tok[k] \in DOMAIN short}

\* how often the token tok, read as a token, names the descriptor d
OccIn(tok, d) ==
    IF ~Dashed(tok) THEN (IF d = defaultOption THEN 1 ELSE 0)
    ELSE IF tok = <<"-", "-">> THEN 0
    ELSE IF LongShaped(tok)
      THEN (IF Lookup(long, LongName(tok)) = d THEN 1 ELSE 0)
    ELSE Cardinality({j \in LetterPositions(tok) : short[tok[j]] = d})

\* how often the tokens read as tokens in the reads rs name d
RECURSIVE Occurrences(_, _)
Occurrences(rs, d) ==
    IF rs = <<>> THEN 0
    ELSE (IF Head(rs).as = "token" THEN OccIn(args[Head(rs).ix + 1], d)
          ELSE 0)
         + Occurrences(Tail(rs), d)

\* s is an initial part of q
IsPrefix(s, q) == Len(s) <= Len(q) /\ SubSeq(q, 1, Len(s)) = s

\* the token about to be read names d first: as a long option, as the first
\* letter of a bundle, or (for the default descriptor) by being no option
NamesFirst(tok, d) ==
    \/ LongShaped(tok) /\ Lookup(long, LongName(tok)) = d
    \/ BundleShaped(tok) /\ Lookup(short, tok[2]) = d
    \/ ~Dashed(tok) /\ d = defaultOption

(* C4 as stated: when the call ends on a repeated-option error for a       *)
(* descriptor, its handler ran at most once, and the same argument list    *)
(* succeeds once that descriptor is marked Repeatable.                     *)
C4_AsStated ==
    (pc = "done" /\ IsRepeatedErr(err)) =>
        LET d == RepeatedOf(err)
            r == GetOpts(MarkRepeatable(options, d), args)
        IN  /\ Count(calls, d) <= 1
            /\ r.err = NoErr

(* C4 amended: a token that names a descriptor not Repeatable and already  *)
(* handled ends the scan with the repeated-option error for it, without    *)
(* invoking a handler; a handler of a descriptor not Repeatable never runs *)
(* twice.  With that descriptor marked Repeatable the same argument list   *)
(* does not end on a repeated-option error for it and the scan gets at     *)
(* least as far; when nothing else in the list is in error it succeeds,    *)
(* the handler having run once for each occurrence.                        *)
C4_RepeatedOption ==
    /\ [](Scanning =>
           /\ \A d \in 1..Len(options) :
                ~options[d].Repeatable => Count(calls, d) <= 1
           /\ (pc = "done" /\ IsRepeatedErr(err)) =>
                LET d == RepeatedOf(err)
                    r == GetOpts(MarkRepeatable(options, d), args)
                IN  /\ ~options[d].Repeatable
                    /\ d \in handled
                    /\ IsRepeatedErr(r.err) => RepeatedOf(r.err) # d
                    /\ IsPrefix(calls, r.calls)
                    /\ r.err = NoErr =>
                         /\ Count(r.calls, d) = Occurrences(r.reads, d)
                         /\ Count(r.calls, d) >= 2)
    /\ [][(pc = "loop" /\ argIx < Len(args)) =>
            \A d \in handled :
              (~Deref(options, d).Repeatable
                 /\ NamesFirst(args[argIx + 1], d)) =>
                   /\ pc' = "done"
                   /\ IsRepeatedErr(err')
                   /\ RepeatedOf(err') = d
                   /\ rest' = NilSlice
                   /\ calls' = calls]_vars

\* ["-k", "a", "-k"] with k not Repeatable: the second -k is refused
C4_Witness ==
    /\ pc = "done"
    /\ options = TblStrict
    /\ args = <<tK, tA, tK>>
    /\ err = RepeatedShort("k")
    /\ calls = <<[opt |-> ixK, value |-> tA]>>
    /\ GetOpts(MarkRepeatable(options, ixK), args).err =
         Errorf("Missing value for option -%c", <<"k">>, "")

----------------------------------------------------------------------------
\* the descriptors of the table with a short and a long name that are not
\* Repeatable
TwoNamed ==
    {d \in 1..Len(options) :
        /\ options[d].Short # NoShort
        /\ options[d].Long # NoLong
        /\ ~options[d].Repeatable}

(* C5: repeatability is kept per descriptor.  For a descriptor with both   *)
(* names that is not Repeatable, a first occurrence in either form marks   *)
(* the descriptor as handled, and a token naming it in either form when it *)
(* is handled ends the scan with the repeated-option error in that token's *)
(* form, no handler being invoked; a bundle that starts with its letter    *)
(* twice fails at the second letter.                                       *)
C5_PerDescriptor ==
    [][(pc = "loop" /\ argIx < Len(args)) =>
        \A d \in TwoNamed :
          LET tok == args[argIx + 1]
              isLong == LongShaped(tok) /\ LongName(tok) = options[d].Long
              isShort == BundleShaped(tok) /\ tok[2] = options[d].Short
              twice == isShort /\ Len(tok) >= 3 /\ tok[3] = tok[2]
          IN  /\ ((isLong \/ isShort) /\ d \notin handled) => d \in handled'
              /\ (isLong /\ d \in handled) =>
                    /\ pc' = "done"
                    /\ err' = RepeatedLong(options[d].Long)
                    /\ calls' = calls
              /\ (isShort /\ d \in handled) =>
                    /\ pc' = "done"
                    /\ err' = RepeatedShort(options[d].Short)
                    /\ calls' = calls
              /\ (twice /\ d \notin handled) =>
                    /\ pc' = "done"
                    /\ err' = RepeatedShort(options[d].Short)
                    /\ Count(calls', d) <= 1
                    /\ Len(calls') <= Len(calls) + 1]_vars

\* ["--help", "-h"] with h/help not Repeatable: -h is the repeat
C5_Witness ==
    /\ pc = "done"
    /\ options = TblStrict
    /\ args = <<tHelp, tH>>
    /\ err = RepeatedShort("h")
    /\ calls = <<[opt |-> ixH, value |-> <<>>]>>

----------------------------------------------------------------------------
(* A short bundle, as the claims describe it: its option letters are the   *)
(* characters after the dash up to the first one that is not in the short  *)
(* index; the remainder is what follows them.                              *)

Letters(tok) ==
    [j \in 1..Cardinality(LetterPositions(tok)) |-> tok[j + 1]]

Remainder(tok) == SubSeq(tok, Len(Letters(tok)) + 2, Len(tok))

\* the letter c names a value-taking descriptor
TakesValue(c) == Deref(options, short[c]).Value

ValueLetters(tok) == SelectSeq(Letters(tok), TakesValue)

\* the invocations of the plain flags of the bundle, in letter order
FlagCalls(tok) ==
    LET IsFlag(c) == ~TakesValue(c)
        fl == SelectSeq(Letters(tok), IsFlag)
    IN  [j \in 1..Len(fl) |-> [opt |-> short[fl[j]], value |-> <<>>]]

\* a token follows the one about to be read
HasNext == argIx + 1 < Len(args)

\* the value of the bundle's value option: the remainder, else the next token
Resolved(tok) ==
    IF Remainder(tok) # <<>> THEN Remainder(tok) ELSE args[argIx + 2]

\* the invocations a bundle makes when nothing fails
Expected(tok) ==
    FlagCalls(tok) \o
      (IF ValueLetters(tok) = <<>> THEN <<>>
       ELSE <<[opt |-> short[ValueLetters(tok)[1]], value |-> Resolved(tok)]>>)

\* the new invocations of value-taking descriptors
NewValueCalls ==
    LET OfValue(c) == Deref(options, c.opt).Value
    IN  SelectSeq(NewCalls, OfValue)

\* the handler of the letter c accepts
Accepts(c) == Deref(options, short[c]).Handler = "accept"

(* C8: a short bundle that is scanned without error invokes the handlers   *)
(* of its plain flags in letter order, each with the empty string, and     *)
(* then, once, the handler of its value option with the resolved value; a  *)
(* bundle that fails has invoked an initial part of that sequence.  With   *)
(* flags n, r and value option k: -nkr 2 and -nrk 2 invoke n, r, k("2"),   *)
(* and -nk2r invokes n, k("2r") and never r.                               *)
C8_BundleOrder ==
    [][(pc = "loop" /\ argIx < Len(args) /\ BundleShaped(args[argIx + 1])) =>
        LET tok == args[argIx + 1]
            n == [opt |-> ixN, value |-> <<>>]
            r == [opt |-> ixR, value |-> <<>>]
            fresh == handled = {} /\ Accepts("r")
        IN  /\ CallsGrow
            /\ pc' = "loop" => NewCalls = Expected(tok)
            /\ pc' = "done" =>
                 \/ IsPrefix(NewCalls, FlagCalls(tok))
                 \/ /\ ValueLetters(tok) # <<>>
                    /\ Remainder(tok) # <<>> \/ HasNext
                    /\ NewCalls = Expected(tok)
            /\ (fresh /\ tok \in {tNKR, tNRK} /\ HasNext
                  /\ args[argIx + 2] = t2) =>
                 NewCalls = <<n, r, [opt |-> ixK, value |-> <<"2">>]>>
            /\ (fresh /\ tok = tNK2R) =>
                 /\ NewCalls = <<n, [opt |-> ixK, value |-> <<"2", "r">>]>>
                 /\ ixR \notin handled'
                 /\ argIx' = argIx + 1]_vars

\* ["-nkr", "2"]: n, r, then k with 2
C8_Witness ==
    /\ pc = "done"
    /\ args = <<tNKR, t2>>
    /\ err = NoErr
    /\ calls = <<[opt |-> ixN, value |-> <<>>],
                 [opt |-> ixR, value |-> <<>>],
                 [opt |-> ixK, value |-> t2]>>

----------------------------------------------------------------------------
MissingShort(c) == Errorf("Missing value for option -%c", <<c>>, "")

\* no letter of the bundle is refused as a repeat, no flag handler rejects
NoLetterFails(tok) ==
    \A j \in 1..Len(Letters(tok)) :
      LET c == Letters(tok)[j]
          d == short[c]
      IN  /\ \/ Deref(options, d).Repeatable
             \/ d \notin handled /\ \A k \in 1..(j - 1) : Letters(tok)[k] # c
          /\ ~TakesValue(c) => Accepts(c)

(* C9: for a bundle with a value-taking letter, the value handed to that   *)
(* option is the remainder of the token when there is one, and then no     *)
(* further token is consumed; otherwise it is the next token, which is     *)
(* consumed; and when there is neither, the scan ends with the             *)
(* missing-value error and the value-taking handler is not invoked.        *)
C9_ValueResolution ==
    [][(pc = "loop" /\ argIx < Len(args) /\ BundleShaped(args[argIx + 1])
          /\ ValueLetters(args[argIx + 1]) # <<>>) =>
        LET tok == args[argIx + 1]
            rem == Remainder(tok)
            v == ValueLetters(tok)[1]
        IN  /\ Len(NewValueCalls) <= 1
            /\ NewValueCalls # <<>> =>
                 /\ NewValueCalls[1].opt = short[v]
                 /\ IF rem # <<>>
                      THEN /\ NewValueCalls[1].value = rem
                           /\ argIx' = argIx + 1
                      ELSE /\ HasNext
                           /\ NewValueCalls[1].value = args[argIx + 2]
                           /\ argIx' = argIx + 2
                           /\ reads'[Len(reads')] =
                                [ix |-> argIx + 1, as |-> "value"]
            /\ (rem = <<>> /\ ~HasNext) =>
                 /\ pc' = "done"
                 /\ err' # NoErr
                 /\ NewValueCalls = <<>>
            /\ err' = MissingShort(v) <=>
                 (rem = <<>> /\ ~HasNext /\ NoLetterFails(tok)
                    /\ Len(ValueLetters(tok)) = 1)
            /\ (NoLetterFails(tok) /\ Len(ValueLetters(tok)) = 1
                  /\ (rem # <<>> \/ HasNext)) =>
                 Len(NewValueCalls) = 1]_vars

\* ["-k2", "-k"]: k is given 2 from its own token, then has no value
C9_Witness ==
    /\ pc = "done"
    /\ options = TblRep
    /\ args = <<tK2, tK>>
    /\ err = MissingShort("k")
    /\ calls = <<[opt |-> ixK, value |-> <<"2">>]>>
    /\ argIx = Len(args)

----------------------------------------------------------------------------
Compete == Errorf("Multiple short options compete for a value", <<>>, "")

\* the positions, among the letters of tok, of the value-taking ones
ValuePositions(tok) ==
    {j \in 1..Len(Letters(tok)) : TakesValue(Letters(tok)[j])}

\* the position of the second value-taking letter of tok
SecondValue(tok) ==
    CHOOSE j \in ValuePositions(tok) :
      Cardinality({k \in ValuePositions(tok) : k < j}) = 1

\* the letter at position j of tok names a descriptor that is not
\* Repeatable and was met before, in an earlier token or earlier in tok
MetBefore(tok, j) ==
    LET c == Letters(tok)[j]
    IN  /\ ~Deref(options, short[c]).Repeatable
        /\ \/ short[c] \in handled
           \/ \E k \in 1..(j - 1) : Letters(tok)[k] = c

\* the scan of the bundle tok gets to a second value-taking letter: no
\* letter before it is refused as a repeat and no flag before it rejects
MeetsSecondValue(tok) ==
    /\ BundleShaped(tok)
    /\ Cardinality(ValuePositions(tok)) >= 2
    /\ \A j \in 1..(SecondValue(tok) - 1) :
         /\ ~MetBefore(tok, j)
         /\ ~TakesValue(Letters(tok)[j]) => Accepts(Letters(tok)[j])

(* C10 as stated: a second value-taking letter met in a bundle ends the    *)
(* scan with the conflicting-value error, and no value-taking handler is   *)
(* invoked.                                                                *)
C10_AsStated ==
    [][(pc = "loop" /\ argIx < Len(args)
          /\ MeetsSecondValue(args[argIx + 1])) =>
        /\ pc' = "done"
        /\ err' = Compete
        /\ NewValueCalls = <<>>]_vars

(* C10 amended: a second value-taking letter met in a bundle ends the scan *)
(* and no value-taking handler is invoked; the error is the repeated-      *)
(* option error when that letter's descriptor is not Repeatable and was    *)
(* met before (in an earlier token, or as the same letter earlier in the   *)
(* bundle), and the conflicting-value error otherwise.                     *)
C10_OneValuePerBundle ==
    [][(pc = "loop" /\ argIx < Len(args)
          /\ MeetsSecondValue(args[argIx + 1])) =>
        LET tok == args[argIx + 1]
            j == SecondValue(tok)
        IN  /\ pc' = "done"
            /\ rest' = NilSlice
            /\ NewValueCalls = <<>>
            /\ argIx' = argIx + 1
            /\ err' = IF MetBefore(tok, j)
                        THEN RepeatedShort(Letters(tok)[j])
                        ELSE Compete]_vars

\* ["-ko"]: k and o both take a value
C10_Witness ==
    /\ pc = "done"
    /\ args = <<tKO>>
    /\ err = Compete
    /\ calls = <<>>
    /\ handled = {ixK, ixO}

----------------------------------------------------------------------------
(* The argument lists of the claims about errors: a lone dash, a rejecting *)
(* flag, a flag given a value, a value option with and without its value.  *)

tDash == <<"-">>
tR == <<"-", "r">>
tRH == <<"-", "r", "h">>
tHelpNone == <<"-", "-", "h", "e", "l", "p", "=">>

TokensErr ==
    {tTerm, tA, tDash, tR, tRH, tHelp, tHelpA, tHelpNone, tOpt, tOptA,
     tBogusA}

InitErr == InitWith(Tables, TokensErr)
SpecErr == InitErr /\ [][Next]_vars

\* the descriptors of the table whose short name is the dash
LoneDash == {d \in 1..Len(options) : options[d].Short = "-"}

\* the descriptor d is refused as a repeat at this point of the scan
Refused(d) == ~Deref(options, d).Repeatable /\ d \in handled

\* the error of a short-option token that names no option
IllegalOption == Errorf("Illegal option", <<>>, "")

----------------------------------------------------------------------------
\* the table declares a default descriptor: no short and no long name
HasDefault ==
    \E d \in 1..Len(options) :
        options[d].Short = NoShort /\ options[d].Long = NoLong

\* the error of the handler that parseOptionTable synthesizes
AdditionalArguments == HandlerError("Additional arguments not allowed")

(* C12: with no default descriptor in the table the default handler is the *)
(* synthesized one, which always fails: the first non-option argument the  *)
(* scan comes to is handed to it and ends the scan with the error          *)
(* "Additional arguments not allowed", an empty leftover, and the cursor   *)
(* just past that argument, so that no later token is read.                *)
C12_NoDefault ==
    [][(pc = "loop" /\ argIx < Len(args) /\ ~Dashed(args[argIx + 1])
          /\ ~HasDefault) =>
          /\ defaultOption = SynthIx(options)
          /\ NewCalls = <<[opt |-> SynthIx(options),
                           value |-> args[argIx + 1]]>>
          /\ pc' = "done"
          /\ err' = AdditionalArguments
          /\ rest' = NilSlice
          /\ argIx' = argIx + 1
          /\ reads' = Append(reads, [ix |-> argIx, as |-> "token"])]_vars

\* ["--help", "a", "--"] on the table without a default: --help was
\* handled, a ended the scan, the terminator was never read
C12_Witness ==
    /\ pc = "done"
    /\ options = TblBare
    /\ args = <<tHelp, tA, tTerm>>
    /\ err = AdditionalArguments
    /\ rest = NilSlice
    /\ argIx = 2
    /\ calls = << [opt |-> ixH, value |-> <<>>],
                  [opt |-> SynthIx(options), value |-> tA] >>

----------------------------------------------------------------------------
(* Table validation: every table of at most MaxTable descriptors drawn     *)
(* with and without a handler, a short name (a letter or the dash), a long *)
(* name and a value, each called on a few argument lists.                  *)

MaxTable == 2

Descriptors ==
    {Option(s, l, v, FALSE, h) :
        s \in {NoShort, "h", "-"},
        l \in {NoLong, <<"h", "e", "l", "p">>, <<"o", "p", "t">>},
        v \in BOOLEAN,
        h \in {"nil", "accept"}}

\* every table of at most MaxTable descriptors of D
TablesOf(D) == UNION {[1..n -> D] : n \in 0..MaxTable}

ProbeArgs == {<<>>, <<tA, tH>>, <<tHelp, tTerm>>, <<tDash, tOptA>>}

InitTables == InitOn(TablesOf(Descriptors), ProbeArgs)

SpecTables == InitTables /\ [][Next]_vars

\* the table has one of the defects of a misconfigured table
Defective(opts) ==
    LET D == 1..Len(opts)
    IN  \/ \E d \in D : opts[d].Handler = "nil"
        \/ \E d1, d2 \in D :
              /\ d1 # d2
              /\ opts[d1].Short = NoShort /\ opts[d1].Long = NoLong
              /\ opts[d2].Short = NoShort /\ opts[d2].Long = NoLong
        \/ \E d1, d2 \in D :
              /\ d1 # d2
              /\ opts[d1].Short # NoShort
              /\ opts[d1].Short = opts[d2].Short
        \/ \E d1, d2 \in D :
              /\ d1 # d2
              /\ opts[d1].Long # NoLong
              /\ opts[d1].Long = opts[d2].Long
        \/ \E d \in D :
              /\ opts[d].Short = "-"
              /\ opts[d].Long # NoLong \/ opts[d].Value

(* C13: once the table has been validated, the call has panicked exactly   *)
(* when the table has a descriptor without handler, two default            *)
(* descriptors, two descriptors with the same short name or the same long  *)
(* name, or a lone-dash descriptor that has a long name or takes a value;  *)
(* every table with none of these defects is accepted and scanned.         *)
C13_TableValidation ==
    pc # "parse" => (pc = "panic" <=> Defective(options))

\* two descriptors with handlers and the same short name: a panic
C13_Witness ==
    /\ pc = "panic"
    /\ Len(options) = 2
    /\ options[1].Short = "h" /\ options[2].Short = "h"
    /\ options[1].Long # options[2].Long
    /\ \A d \in 1..2 : options[d].Handler = "accept"

(* C14: a misconfigured table is found out before any argument is looked   *)
(* at: with a defective table the call never gets past validation,         *)
(* whatever the argument list, and it has invoked no handler, read no      *)
(* argument and returned nothing.                                          *)
C14_ValidationFirst ==
    Defective(options) =>
        /\ pc \in {"parse", "panic"}
        /\ calls = <<>>
        /\ reads = <<>>
        /\ argIx = 0
        /\ err = NoErr
        /\ rest = NilSlice

\* --help is defined and given, but the second descriptor has no handler:
\* the call panicked and the --help handler never ran
C14_Witness ==
    /\ pc = "panic"
    /\ args = <<tHelp, tTerm>>
    /\ Len(options) = 2
    /\ options[1].Long = <<"h", "e", "l", "p">>
    /\ options[1].Short = NoShort
    /\ options[1].Handler = "accept"
    /\ options[2].Handler = "nil"
    /\ calls = <<>>

----------------------------------------------------------------------------
\* the last handler invocation of the call
LastCall == calls[Len(calls)]

\* the error the last invoked handler returned ("" when nil)
LastResult ==
    HandlerResult(Deref(options, LastCall.opt).Handler, LastCall.value)

\* the call ended because a handler of the caller's table returned an error
HandlerFailed ==
    /\ pc = "done"
    /\ calls # <<>>
    /\ LastCall.opt \in 1..Len(options)
    /\ LastResult # ""

\* the names an error message can show a descriptor by
DisplayNames(d) ==
    LET o == Deref(options, d)
    IN  (IF o.Long # NoLong THEN {o.Long} ELSE {})
          \cup (IF o.Short # NoShort THEN {<<o.Short>>} ELSE {})

----------------------------------------------------------------------------
\* the error the handler returned for the invocation c ("" when nil)
ResultOf(c) == HandlerResult(Deref(options, c.opt).Handler, c.value)

\* the error e carries the handler error r, wrapped or bare
Carries(e, r) == e.cause = r \/ e = HandlerError(r)

(* C16: the scan stops at the first error.  No step is taken once an error *)
(* has arisen, so no handler runs, no token is read and the error is not   *)
(* replaced afterwards; the step in which the error arises ends the call   *)
(* with an empty (nil) leftover, has read the arguments up to the cursor   *)
(* and none behind it (whether a "--" or anything else), and has invoked   *)
(* no handler after one that failed.                                       *)
C16_FirstErrorStops ==
    [][/\ err = NoErr
       /\ err' # NoErr =>
            /\ pc' = "done"
            /\ rest' = NilSlice
            /\ Len(reads') = argIx'
            /\ \A j \in 1..Len(reads') : reads'[j].ix = j - 1
            /\ CallsGrow
            /\ \A j \in 1..Len(NewCalls) :
                  ResultOf(NewCalls[j]) # "" =>
                    /\ j = Len(NewCalls)
                    /\ Carries(err', ResultOf(NewCalls[j]))]_vars

\* ["--help=a", "--", "a"]: the first token is in error; the terminator
\* and the token behind it are never read and nothing is returned
C16_Witness ==
    /\ pc = "done"
    /\ args = <<tHelpA, tTerm, tA>>
    /\ err = Errorf("Option --%s does not take a value",
                    <<"h", "e", "l", "p">>, "")
    /\ rest = NilSlice
    /\ calls = <<>>
    /\ reads = <<[ix |-> 0, as |-> "token"]>>

----------------------------------------------------------------------------
\* the descriptors of the table that the long-option token tok names
NamedBy(tok) ==
    {d \in 1..Len(options) :
        /\ LongShaped(tok)
        /\ options[d].Long # NoLong
        /\ options[d].Long = LongName(tok)}

\* the scan is about to read, as a token, one that names a long option
AtLong == pc = "loop" /\ argIx < Len(args) /\ NamedBy(args[argIx + 1]) # {}

UnexpectedValue(name) ==
    Errorf("Option --%s does not take a value", name, "")

MissingLong(name) == Errorf("Missing value for option --%s", name, "")

(* C17 as stated: a token --opt=value or --opt= that names a known option  *)
(* taking no value ends the scan with the unexpected-value error, and the  *)
(* handler is not invoked.                                                 *)
C17_AsStated ==
    [][AtLong =>
         LET tok == args[argIx + 1]
         IN  \A d \in NamedBy(tok) :
               (HasEq(tok) /\ ~options[d].Value) =>
                  /\ pc' = "done"
                  /\ err' = UnexpectedValue(LongName(tok))
                  /\ calls' = calls]_vars

(* C17 amended: a token --opt=value or --opt= that names a known option    *)
(* taking no value ends the scan and the handler is not invoked; the error *)
(* is the unexpected-value error, unless the option is not Repeatable and  *)
(* was met before, when it is the repeated-option error.                   *)
C17_UnexpectedValue ==
    [][AtLong =>
         LET tok == args[argIx + 1]
         IN  \A d \in NamedBy(tok) :
               (HasEq(tok) /\ ~options[d].Value) =>
                  /\ pc' = "done"
                  /\ rest' = NilSlice
                  /\ calls' = calls
                  /\ err' = IF Refused(d)
                              THEN RepeatedLong(LongName(tok))
                              ELSE UnexpectedValue(LongName(tok))]_vars

\* ["--help="]: an empty value is a value all the same
C17_Witness ==
    /\ pc = "done"
    /\ args = <<tHelpNone>>
    /\ err = UnexpectedValue(<<"h", "e", "l", "p">>)
    /\ calls = <<>>
    /\ handled = {ixH}

(* C18 as stated: a token --opt without "=" that names a value-taking      *)
(* option ends the scan with the missing-value error naming the option,    *)
(* the handler not invoked, when it is the last token; when a token        *)
(* follows, that token is the value handed to the handler and the cursor   *)
(* moves past it.                                                          *)
C18_AsStated ==
    [][AtLong =>
         LET tok == args[argIx + 1]
         IN  \A d \in NamedBy(tok) :
               (~HasEq(tok) /\ options[d].Value) =>
                  IF argIx + 1 = Len(args)
                    THEN /\ pc' = "done"
                         /\ err' = MissingLong(LongName(tok))
                         /\ calls' = calls
                    ELSE /\ NewCalls = <<[opt |-> d,
                                          value |-> args[argIx + 2]]>>
                         /\ argIx' = argIx + 2]_vars

(* C18 amended: as stated, unless the option is not Repeatable and was met *)
(* before: the scan then ends with the repeated-option error, the handler  *)
(* is not invoked and no following token is consumed.                      *)
C18_ValueFromNext ==
    [][AtLong =>
         LET tok == args[argIx + 1]
         IN  \A d \in NamedBy(tok) :
               (~HasEq(tok) /\ options[d].Value) =>
                  IF Refused(d)
                    THEN /\ pc' = "done"
                         /\ err' = RepeatedLong(LongName(tok))
                         /\ calls' = calls
                         /\ argIx' = argIx + 1
                  ELSE IF argIx + 1 = Len(args)
                    THEN /\ pc' = "done"
                         /\ err' = MissingLong(LongName(tok))
                         /\ rest' = NilSlice
                         /\ calls' = calls
                    ELSE /\ NewCalls = <<[opt |-> d,
                                          value |-> args[argIx + 2]]>>
                         /\ argIx' = argIx + 2
                         /\ reads' = reads \o
                              << [ix |-> argIx, as |-> "token"],
                                 [ix |-> argIx + 1, as |-> "value"] >>]_vars

\* ["--opt", "--", "--opt"] with opt Repeatable: the terminator is the
\* value of the first --opt and is skipped, the second has no value
C18_Witness ==
    /\ pc = "done"
    /\ options = TblRep
    /\ args = <<tOpt, tTerm, tOpt>>
    /\ err = MissingLong(<<"o", "p", "t">>)
    /\ rest = NilSlice
    /\ calls = <<[opt |-> ixO, value |-> tTerm]>>

----------------------------------------------------------------------------
(* The convenience handlers: the table of TestOpts, whose flags are set by *)
(* SetFlag and whose values are stored by SetString, every descriptor      *)
(* Repeatable so that a handler can run more than once in a call.          *)

TblSet ==
    << optH(TRUE, "SetFlag"), optK(TRUE, "SetString"), optN(TRUE, "SetFlag"),
       optR(TRUE, "SetFlag"), optO(TRUE, "SetString"),
       optDash(TRUE, "SetFlag"), optDefault(TRUE, "accept") >>

TokensSet == {tTerm, tA, tH, tHH, tHelp, tK2, tOpt, tOptA, tOptNone}

InitSet == InitWith({TblSet}, TokensSet)
SpecSet == InitSet /\ [][Next]_vars

\* the caller's variable behind the pointer p, read as a bool or a string
FlagOf(cs, p) == IF p \in DOMAIN cs THEN cs[p] ELSE FALSE
StringOf(cs, p) == IF p \in DOMAIN cs THEN cs[p] ELSE <<>>

\* the values the step being taken hands to the handler of d, in order
NewValuesOf(d) ==
    LET Mine(c) == c.opt = d
        sel == SelectSeq(NewCalls, Mine)
    IN  [j \in 1..Len(sel) |-> sel[j].value]

(* C19: in every step of the scan, a flag behind a SetFlag handler is true *)
(* after the step if the handler ran in it, whatever the value, and is     *)
(* never set back from true to false; a string behind a SetString handler  *)
(* holds exactly the value of the handler's last invocation, and is left   *)
(* alone when the handler did not run; neither handler returns an error.   *)
C19_ConvenienceHandlers ==
    [][\A d \in 1..Len(options) :
         LET h == options[d].Handler
             vs == NewValuesOf(d)
         IN  /\ h = "SetFlag" =>
                  /\ vs # <<>> => FlagOf(cells', d) = TRUE
                  /\ FlagOf(cells, d) => FlagOf(cells', d)
                  /\ vs = <<>> => FlagOf(cells', d) = FlagOf(cells, d)
             /\ h = "SetString" =>
                  StringOf(cells', d) =
                     IF vs = <<>> THEN StringOf(cells, d) ELSE vs[Len(vs)]
             /\ (h \in {"SetFlag", "SetString"} /\ vs # <<>>) =>
                  /\ \A j \in 1..Len(vs) : HandlerResult(h, vs[j]) = ""
                  /\ err'.cause = ""
                  /\ err' # HandlerError("rejected")]_vars

\* ["--opt=a", "-hh", "--opt="]: the flag of h is set by the first h and
\* stays set, the string of opt holds the last value, the empty one
C19_Witness ==
    /\ pc = "done"
    /\ options = TblSet
    /\ args = <<tOptA, tHH, tOptNone>>
    /\ err = NoErr
    /\ FlagOf(cells, ixH) = TRUE
    /\ StringOf(cells, ixO) = <<>>
    /\ ixO \in DOMAIN cells
    /\ Len(calls) = 4

----------------------------------------------------------------------------
(* PrintOpts.  A text is a sequence of one-character strings; the output   *)
(* is the sequence of the lines written, a line being what one Fprintln    *)
(* ends (the help texts are single-line, as in the tables of the           *)
(* repository).                                                            *)

\* the character '`', which delimits the value label in a help text
Backtick == "BACKTICK"

\* the letters strings.ToLower changes, and what it changes them to
UpperCase == <<"A", "B", "F", "G", "N">>
LowerCase == <<"a", "b", "f", "g", "n">>

\* strings.ToLower(str)
ToLower(str) ==
    [j \in 1..Len(str) |->
        IF \E k \in 1..Len(UpperCase) : UpperCase[k] = str[j]
          THEN LowerCase[CHOOSE k \in 1..Len(UpperCase) :
                           UpperCase[k] = str[j]]
          ELSE str[j]]

\* the index of the last c instead of the first (strings.LastIndex)
Index_last(str, c) ==
    LET hits == {j \in 1..Len(str) : str[j] = c}
    IN  IF hits = {} THEN -1
        ELSE (CHOOSE x \in hits : \A y \in hits : x >= y) - 1

\* strings.Index(str, c): the 0-based index of the first c, -1 when none
Index(str, c) ==
    LET hits == {j \in 1..Len(str) : str[j] = c}
    IN  IF hits = {} THEN -1
        ELSE (CHOOSE x \in hits : \A y \in hits : x <= y) - 1

\* str[from:], from 0-based
StrFrom(str, from) == SubSeq(str, from + 1, Len(str))

\* str[from:to], both 0-based
StrRange(str, from, to) == SubSeq(str, from + 1, to)

\* vtext: "value", or the lower-cased text between the first two backticks
\* of the help text when there is such a pair with something in between
ValueText(help) ==
    LET word == <<"v", "a", "l", "u", "e">>
        ix == Index(help, Backtick)
    IN  IF ix = -1 THEN word
        ELSE LET iy0 == Index(StrFrom(help, ix + 1), Backtick)
                 iy == iy0 + ix + 1
             IN  IF iy0 = -1 THEN word
                 ELSE IF iy - ix > 1
                   THEN ToLower(StrRange(help, ix + 1, iy))
                 ELSE word

\* otext: two spaces, -c, a comma between the names, --long, the label
OptionText(o) ==
    <<" ", " ">>
      \o (IF o.Short # NoShort THEN <<"-", o.Short>> ELSE <<>>)
      \o (IF o.Long # NoLong /\ o.Short # NoShort THEN <<",", " ">> ELSE <<>>)
      \o (IF o.Long # NoLong THEN <<"-", "-">> \o o.Long ELSE <<>>)
      \o (IF o.Value THEN <<" ">> \o ValueText(o.Help) ELSE <<>>)

\* a test that forgets the default descriptor: o.Help == ""
Skipped_helpOnly(o) == o.Help = NoHelp

\* o.Help == "" || (o.Short == 0 && o.Long == "")
Skipped(o) == o.Help = NoHelp \/ (o.Short = NoShort /\ o.Long = NoLong)

\* the for loop of PrintOpts from the descriptor at index k on
RECURSIVE printLoop(_, _, _)
printLoop(out, opts, k) ==
    IF k > Len(opts) THEN out
    ELSE LET o == opts[k]
         IN  IF Skipped(o) THEN printLoop(out, opts, k + 1)
             ELSE printLoop(out \o << OptionText(o),
                                      <<" ", " ", " ", " ">> \o o.Help >>,
                            opts, k + 1)

PrintOpts(out, opts) == printLoop(out, opts, 1)

\* the descriptor o with the help text help
WithHelp(o, help) == [o EXCEPT !.Help = help]

hGo == <<"G", "o">>
hFile == <<"t", "o", " ", Backtick, "F", Backtick>>
hEmptyPair == <<Backtick, Backtick, "a">>
hTwoPairs == <<Backtick, "A", Backtick, Backtick, "B", Backtick>>
hUnmatched == <<"a", Backtick, "b">>

HelpTexts == {NoHelp, hGo, hFile, hEmptyPair, hTwoPairs, hUnmatched}

HelpDescriptors ==
    {WithHelp(Option(s, l, v, FALSE, "accept"), help) :
        s \in {NoShort, "o"},
        l \in {NoLong, <<"o", "u", "t">>},
        v \in BOOLEAN,
        help \in HelpTexts}

\* a PrintOpts call on an empty writer
InitPrint == InitAt("print", TablesOf(HelpDescriptors), {<<>>})

\* PrintOpts(output, options)
PrintOptsCall ==
    /\ pc = "print"
    /\ output' = PrintOpts(output, options)
    /\ pc' = "printed"
    /\ UNCHANGED <<options, args, short, long, defaultOption, handled,
                   argIx, calls, reads, err, rest, cells, peer>>

PrintNext == PrintOptsCall

SpecPrint == InitPrint /\ [][PrintNext]_vars

\* the descriptor has help text and a name
Printable(o) ==
    o.Help # NoHelp /\ (o.Short # NoShort \/ o.Long # NoLong)

\* the names of a descriptor as an option line shows them
NamesText(o) ==
    IF o.Short # NoShort /\ o.Long # NoLong
      THEN <<"-", o.Short, ",", " ", "-", "-">> \o o.Long
    ELSE IF o.Short # NoShort THEN <<"-", o.Short>>
    ELSE <<"-", "-">> \o o.Long

(* C20: what PrintOpts has written is, for the descriptors of the table    *)
(* that have help text and a short or a long name, in table order, one     *)
(* option line (two spaces, the names, and a label only for a value        *)
(* option) followed by one line with the help text after four spaces;      *)
(* nothing is written for a descriptor without help text or without names. *)
C20_PrintedDescriptors ==
    pc = "printed" =>
        LET shown == SelectSeq(options, Printable)
        IN  /\ Len(output) = 2 * Len(shown)
            /\ \A j \in 1..Len(shown) :
                  LET o == shown[j]
                      line == output[2 * j - 1]
                      lead == <<" ", " ">> \o NamesText(o)
                  IN  /\ IsPrefix(lead, line)
                      /\ ~o.Value => line = lead
                      /\ o.Value => Len(line) > Len(lead) + 1
                      /\ output[2 * j] = <<" ", " ", " ", " ">> \o o.Help

\* a default descriptor with help text, then -o, --out with help text:
\* only the second is printed
C20_Witness ==
    /\ pc = "printed"
    /\ Len(options) = 2
    /\ options[1] = WithHelp(Option(NoShort, NoLong, FALSE, FALSE, "accept"),
                             hGo)
    /\ options[2] = WithHelp(Option("o", <<"o", "u", "t">>, FALSE, FALSE,
                                    "accept"), hGo)
    /\ output = << <<" ", " ", "-", "o", ",", " ", "-", "-", "o", "u", "t">>,
                   <<" ", " ", " ", " ", "G", "o">> >>

----------------------------------------------------------------------------
\* the positions of the backticks of a help text
Ticks(help) == {j \in 1..Len(help) : help[j] = Backtick}

\* the k-th smallest element of a set of numbers
Nth(S, k) == CHOOSE x \in S : Cardinality({y \in S : y <= x}) = k

\* the help text has a first backtick and another one after it
HasPair(help) == Cardinality(Ticks(help)) >= 2

\* what stands between the first backtick and the next one
FirstQuoted(help) ==
    IF HasPair(help)
      THEN SubSeq(help, Nth(Ticks(help), 1) + 1, Nth(Ticks(help), 2) - 1)
      ELSE <<>>

\* low is text with its upper-case letters replaced by the lower-case ones
IsLowerOf(low, text) ==
    LET pairs == {<<"A", "a">>, <<"B", "b">>, <<"F", "f">>, <<"G", "g">>,
                  <<"N", "n">>}
    IN  /\ Len(low) = Len(text)
        /\ \A j \in 1..Len(text) :
              IF \E pr \in pairs : pr[1] = text[j]
                THEN <<text[j], low[j]>> \in pairs
                ELSE low[j] = text[j]

\* the option line written for the j-th printable descriptor, and what
\* follows the names on it
OptionLine(j) == output[2 * j - 1]
AfterNames(j) ==
    LET o == SelectSeq(options, Printable)[j]
    IN  SubSeq(OptionLine(j), Len(NamesText(o)) + 3, Len(OptionLine(j)))

\* the literal label
ValueWord == <<"v", "a", "l", "u", "e">>

(* C21 as stated: a label is printed only for a value-taking option; it is *)
(* the word "value" unless the help text has a backtick-delimited          *)
(* substring, and then it is the first such substring, lower-cased.        *)
C21_AsStated ==
    pc = "printed" =>
        LET shown == SelectSeq(options, Printable)
        IN  \A j \in 1..Len(shown) :
              LET o == shown[j]
              IN  IF ~o.Value THEN AfterNames(j) = <<>>
                  ELSE \E label \in {ValueWord, ToLower(FirstQuoted(o.Help))} :
                         /\ AfterNames(j) = <<" ">> \o label
                         /\ IF HasPair(o.Help)
                              THEN IsLowerOf(label, FirstQuoted(o.Help))
                              ELSE label = ValueWord

(* C21 amended: a label is printed only for a value-taking option; it is   *)
(* the text between the first backtick of the help text and the next one,  *)
(* lower-cased, when there is such a pair with at least one character in   *)
(* between, and the word "value" otherwise (no backtick, a single one, or  *)
(* a first pair with nothing in it, whatever follows).                     *)
C21_ValueLabel ==
    pc = "printed" =>
        LET shown == SelectSeq(options, Printable)
        IN  \A j \in 1..Len(shown) :
              LET o == shown[j]
              IN  IF ~o.Value THEN AfterNames(j) = <<>>
                  ELSE \E label \in {ValueWord, ToLower(FirstQuoted(o.Help))} :
                         /\ AfterNames(j) = <<" ">> \o label
                         /\ IF HasPair(o.Help) /\ FirstQuoted(o.Help) # <<>>
                              THEN IsLowerOf(label, FirstQuoted(o.Help))
                              ELSE label = ValueWord

\* -o with the help text "`A``B`" and a value: the label is a, from the
\* first pair
C21_Witness ==
    /\ pc = "printed"
    /\ Len(options) = 1
    /\ options[1] = WithHelp(Option("o", NoLong, TRUE, FALSE, "accept"),
                             hTwoPairs)
    /\ output[1] = <<" ", " ", "-", "o", " ", "a">>

----------------------------------------------------------------------------
\* the permutations of 1..n
Perms(n) == {p \in [1..n -> 1..n] : \A i, j \in 1..n : p[i] = p[j] => i = j}

\* the descriptor list opts in the order p: position j holds opts[p[j]]
Permuted(opts, p) == [j \in 1..Len(opts) |-> opts[p[j]]]

\* the descriptor of the original list that the pointer d of the permuted
\* list stands for (the synthesized default stands for itself)
Original(p, d) == IF d \in DOMAIN p THEN p[d] ELSE d

\* the index m2 of a permuted list finds what the index m finds
SameLookup(p, m2, m) ==
    /\ DOMAIN m2 = DOMAIN m
    /\ \A key \in DOMAIN m : Original(p, m2[key]) = m[key]

\* the invocations cs of a call on the permuted list are the invocations
\* calls of this call
SameCalls(p, cs) ==
    /\ Len(cs) = Len(calls)
    /\ \A j \in 1..Len(cs) :
          /\ Original(p, cs[j].opt) = calls[j].opt
          /\ cs[j].value = calls[j].value

(* C22: for a table that validation accepts, building the indexes again    *)
(* gives the indexes the call holds, and building them from any            *)
(* permutation of the descriptor list gives indexes that find the same     *)
(* descriptors for the same short names and long names and the same        *)
(* default descriptor; when the call has returned, GetOpts on the          *)
(* permuted list with the same arguments has made the same handler         *)
(* invocations and returned the same error and the same leftover.          *)
C22_OrderIndependent ==
    Scanning =>
        /\ Tbl = Table(options)
        /\ \A p \in Perms(Len(options)) :
              LET opts2 == Permuted(options, p)
                  tbl2 == Table(opts2)
              IN  /\ SameLookup(p, tbl2.short, short)
                  /\ SameLookup(p, tbl2.long, long)
                  /\ Original(p, tbl2.defaultOption) = defaultOption
                  /\ pc = "done" =>
                       LET r2 == GetOpts(opts2, args)
                       IN  /\ SameCalls(p, r2.calls)
                           /\ r2.err = err
                           /\ r2.rest = rest

\* ["--help", "--"] on a table of a default descriptor and --help: the
\* table in the other order has --help at index 1
C22_Witness ==
    /\ pc = "done"
    /\ args = <<tHelp, tTerm>>
    /\ Len(options) = 2
    /\ options[1].Short = NoShort /\ options[1].Long = NoLong
    /\ options[2].Long = <<"h", "e", "l", "p">>
    /\ options[2].Short = "h"
    /\ calls = <<[opt |-> 2, value |-> <<>>]>>
    /\ Table(<<options[2], options[1]>>).long[<<"h", "e", "l", "p">>] = 1
    /\ rest = Slice(<<>>)

----------------------------------------------------------------------------
(* Two GetOpts calls on the same table, their steps interleaved in every   *)
(* way (one after the other included).  Each call has its own local        *)
(* variables; the table, and with it the descriptor pointers, is shared.   *)

TokensTwo == {tTerm, tA, tH, tHelp, tOpt}

PeerArgs == {<<>>, <<tHelp>>, <<tH, tA>>, <<tA, tA>>, <<tOpt, tA, tHelp>>}

\* the second call, about to be entered
Peers == {[args |-> as, s |-> [Start EXCEPT !.pc = "parse"]] : as \in PeerArgs}

InitTwo == InitCalls("parse", {TblStrict, TblBare}, ArgLists(TokensTwo), Peers)

\* the second call validates the table and enters its loop
PeerEnter ==
    /\ peer.s.pc = "parse"
    /\ parseOptionTable(options).panic = ""
    /\ peer' = [peer EXCEPT !.s = Start]
    /\ UNCHANGED <<options, args, pc, short, long, defaultOption, handled,
                   argIx, calls, reads, err, rest, cells, output>>

\* one pass of the loop of the second call, or its return
PeerStep ==
    /\ peer.s.pc = "loop"
    /\ peer' = [peer EXCEPT !.s =
                  Iter(Table(options), peer.args,
                       [peer.s EXCEPT !.handled = OwnHandled(@, handled)])]
    /\ UNCHANGED <<options, args, pc, short, long, defaultOption, handled,
                   argIx, calls, reads, err, rest, cells, output>>

NextTwo ==
    \/ ParseTable
    \/ Terminator
    \/ LongOption
    \/ ShortBundle
    \/ DefaultArg
    \/ Return
    \/ PeerEnter
    \/ PeerStep

SpecTwo == InitTwo /\ [][NextTwo]_vars

\* the state record of the first call, as its own variables hold it
Mine == [pc |-> pc, argIx |-> argIx, handled |-> handled, calls |-> calls,
         reads |-> reads, err |-> err, rest |-> rest, cells |-> cells]

(* C23: with two calls on the same table under way, every step of one call *)
(* leaves the handled-set, the cursor, the leftover and the result of the  *)
(* other as they were, and each call, once it has returned, has made the   *)
(* invocations and returned the error and the leftover of that call run    *)
(* alone; so an option that is not Repeatable, given once to each call, is *)
(* not a repeat in either.                                                 *)
C23_CallsIndependent ==
    [][/\ peer' # peer =>
            UNCHANGED <<pc, handled, argIx, calls, reads, err, rest>>
       /\ <<pc, handled, argIx, calls, reads, err, rest>>'
             # <<pc, handled, argIx, calls, reads, err, rest>> =>
            peer' = peer
       /\ pc' = "done" => Mine' = GetOpts(options, args)
       /\ peer'.s.pc = "done" => peer'.s = GetOpts(options, peer.args)]_vars

\* both calls were given --help, which is not Repeatable, and both ended
\* without error, the handler having run once in each
C23_Witness ==
    /\ pc = "done" /\ peer.s.pc = "done"
    /\ args = <<tHelp>> /\ peer.args = <<tHelp>>
    /\ ~options[ixH].Repeatable
    /\ err = NoErr /\ peer.s.err = NoErr
    /\ calls = <<[opt |-> ixH, value |-> <<>>]>>
    /\ peer.s.calls = calls
    /\ handled = {ixH} /\ peer.s.handled = {ixH}

----------------------------------------------------------------------------
(* C24: no step of a GetOpts call (validation, indexing, a pass of the     *)
(* scan loop, the return, whether it ends in an error or not) changes the  *)
(* caller's descriptor list or argument list.                              *)
C24_InputsUnchanged ==
    [][/\ options' = options
       /\ args' = args
       /\ Len(options') = Len(options)
       /\ \A d \in 1..Len(options) : options'[d] = options[d]
       /\ \A j \in 1..Len(args) : args'[j] = args[j]]_vars

\* ["--opt", "a", "-rh"] on the table without a default has ended in an
\* error after a handler rejected its value; table and list are as given
C24_Witness ==
    /\ pc = "done"
    /\ err # NoErr
    /\ options = TblBare
    /\ args = <<tOpt, tA, tRH>>
    /\ calls = <<[opt |-> ixO, value |-> tA]>>
    /\ defaultOption = SynthIx(options)

----------------------------------------------------------------------------
(* The argument lists of the claims about values taken from the next       *)
(* token: value options in long and short form, alone and in a bundle,     *)
(* followed by tokens that look like options.                              *)

tNK == <<"-", "n", "k">>
tNDash == <<"-", "n", "-">>
tKDash == <<"-", "k", "-">>
tNZ == <<"-", "n", "z">>

TokensValue ==
    {tTerm, tA, tDash, tH, tHelp, tOpt, tK, tNK, tNDash, tKDash, tNZ}

InitValue == InitWith(Tables, TokensValue)
SpecValue == InitValue /\ [][Next]_vars

\* the reads the step being taken adds
NewReads == SubSeq(reads', Len(reads) + 1, Len(reads'))

(* C25: a step that reads a token as the value of an option hands exactly  *)
(* that token to the handler of a value-taking option, as the last         *)
(* invocation of the step (the others being the flags of the bundle, with  *)
(* the empty string), and leaves the cursor just behind it; when the       *)
(* handler accepts, the scan goes on whatever the token is ("-", "--", an  *)
(* option name); and no argument is ever read twice, so the token is not   *)
(* scanned as an option, as the terminator or as a non-option argument.    *)
C25_ValueNotClassified ==
    [][/\ \A i, j \in 1..Len(reads') :
            reads'[i].ix = reads'[j].ix => i = j
       /\ \A k \in 1..Len(NewReads) :
            NewReads[k].as = "value" =>
              LET v == args[NewReads[k].ix + 1]
                  n == Len(NewCalls)
              IN  /\ k = Len(NewReads)
                  /\ n >= 1
                  /\ NewCalls[n].value = v
                  /\ Deref(options, NewCalls[n].opt).Value
                  /\ NewCalls[n].opt # defaultOption
                  /\ \A m \in 1..(n - 1) :
                        /\ ~Deref(options, NewCalls[m].opt).Value
                        /\ NewCalls[m].value = <<>>
                  /\ argIx' = NewReads[k].ix + 1
                  /\ ResultOf(NewCalls[n]) = "" =>
                        (pc' = "loop" /\ err' = NoErr /\ rest' = NilSlice)
      ]_vars

\* ["-nk", "--", "--opt"]: "--" is the value of k and does not end the
\* scan: --opt is read next and finds no value
C25_Witness ==
    /\ pc = "done"
    /\ options = TblStrict
    /\ args = <<tNK, tTerm, tOpt>>
    /\ calls = <<[opt |-> ixN, value |-> <<>>], [opt |-> ixK, value |-> tTerm]>>
    /\ err = MissingLong(<<"o", "p", "t">>)
    /\ reads = << [ix |-> 0, as |-> "token"], [ix |-> 1, as |-> "value"],
                  [ix |-> 2, as |-> "token"] >>

----------------------------------------------------------------------------
\* the scan is about to read, as a token, a long-option token
AtLongToken ==
    pc = "loop" /\ argIx < Len(args) /\ LongShaped(args[argIx + 1])

\* the step being taken has gone past the checks and invoked d's handler
Dispatched(d) == NewCalls # <<>> /\ NewCalls[1].opt = d

(* C26 as stated: for a long-option token the unknown-name check comes     *)
(* first, then the unexpected-value check, then the missing-value check,   *)
(* and the repeat check last: a token that fails an earlier check ends the *)
(* scan with that check's error, whatever the later checks would say.      *)
C26_AsStated ==
    [][AtLongToken =>
         LET tok == args[argIx + 1]
             name == LongName(tok)
         IN  IF NamedBy(tok) = {}
               THEN err' = Errorf("Unknown option --%s", name, "")
             ELSE \A d \in NamedBy(tok) :
               IF HasEq(tok) /\ ~options[d].Value
                 THEN err' = UnexpectedValue(name)
               ELSE IF ~HasEq(tok) /\ options[d].Value
                        /\ argIx + 1 = Len(args)
                 THEN err' = MissingLong(name)
               ELSE IF Refused(d)
                 THEN err' = RepeatedLong(name)
               ELSE Dispatched(d)]_vars

(* C26 amended: the order is unknown name, then the repeat check, then the *)
(* unexpected-value check, then the missing-value check: a second          *)
(* occurrence of an option that is not Repeatable ends the scan with the   *)
(* repeated-option error also when it is written --opt=x for an option     *)
(* without value or stands last without the value it needs.                *)
C26_CheckOrder ==
    [][AtLongToken =>
         LET tok == args[argIx + 1]
             name == LongName(tok)
         IN  IF NamedBy(tok) = {}
               THEN /\ err' = Errorf("Unknown option --%s", name, "")
                    /\ calls' = calls
             ELSE \A d \in NamedBy(tok) :
               IF Refused(d)
                 THEN err' = RepeatedLong(name) /\ calls' = calls
               ELSE IF HasEq(tok) /\ ~options[d].Value
                 THEN err' = UnexpectedValue(name) /\ calls' = calls
               ELSE IF ~HasEq(tok) /\ options[d].Value
                        /\ argIx + 1 = Len(args)
                 THEN err' = MissingLong(name) /\ calls' = calls
               ELSE Dispatched(d)]_vars

\* ["--opt=a", "--help", "--opt"] with nothing Repeatable: the last token
\* lacks its value and is a repeat; the error is the repeated-option error
C26_Witness ==
    /\ pc = "done"
    /\ options = TblStrict
    /\ args = <<tOptA, tHelp, tOpt>>
    /\ err = RepeatedLong(<<"o", "p", "t">>)
    /\ Len(calls) = 2
    /\ argIx = 3

----------------------------------------------------------------------------
(* Termination.  The loop of GetOpts is taken again as long as it has not  *)
(* returned, so every enabled step is eventually taken.                    *)

TokensFair == {tTerm, tA, tNK2R, tOpt}

InitFair == InitWith({TblRep}, TokensFair)
SpecFair == InitFair /\ [][Next]_vars /\ WF_vars(Next)

\* the in-token index at which the letter loop leaves the bundle tok
FinalIndex(tok) ==
    bundleLoop(Tbl, tok, ReadArg(Cur, "token"), BundleStart(tok), Nil).i

(* C27: every call returns.  The cursor never moves back, moves on by at   *)
(* least one in every pass of the loop and never passes len(args); the     *)
(* arguments before the cursor have been read once each, in order, as a    *)
(* token or as a value, and none behind it; a call that returns without    *)
(* error has read all arguments, or up to the terminator it returns at;    *)
(* the in-token index of a bundle starts behind the dash and stops within  *)
(* the token's length.                                                     *)
C27_Terminates ==
    /\ <>(pc = "done")
    /\ [][/\ argIx' >= argIx
           /\ argIx' <= Len(args)
           /\ (pc = "loop" /\ argIx < Len(args)) =>
                 argIx' \in {argIx + 1, argIx + 2}
           /\ Len(reads') = argIx'
           /\ \A j \in 1..Len(reads') : reads'[j].ix = j - 1
           /\ (pc' = "done" /\ err' = NoErr) =>
                 IF rest'.nil THEN argIx' = Len(args)
                 ELSE /\ args[argIx'] = <<"-", "-">>
                      /\ reads'[argIx'].as = "token"
           /\ (pc = "loop" /\ argIx < Len(args)
                  /\ BundleShaped(args[argIx + 1])) =>
                 LET tok == args[argIx + 1]
                 IN  /\ FinalIndex(tok) >= BundleStart(tok)
                     /\ FinalIndex(tok) <= Len(tok)]_vars

\* ["-nk2r", "--opt", "--"]: three arguments, each read once, the last as
\* the value of --opt; the call has returned with everything read
C27_Witness ==
    /\ pc = "done"
    /\ options = TblRep
    /\ args = <<tNK2R, tOpt, tTerm>>
    /\ err = NoErr
    /\ argIx = 3
    /\ reads = << [ix |-> 0, as |-> "token"], [ix |-> 1, as |-> "token"],
                  [ix |-> 2, as |-> "value"] >>

----------------------------------------------------------------------------
\* the scan is about to read, as a token, a short bundle (a dash and at
\* least one more character)
AtBundle ==
    pc = "loop" /\ argIx < Len(args) /\ BundleShaped(args[argIx + 1])

\* the value handed to the value option of the bundle by the step taken
ValueGiven == NewCalls[Len(NewCalls)].value

(* C28: the lone-dash handler is invoked only for a token that is exactly  *)
(* "-".  A step that scans a short bundle never invokes it; a dash inside  *)
(* the bundle ends the run of letters, so that after a value letter the    *)
(* rest of the token from the dash on is the attached value.               *)
C28_AsStated ==
    [][AtBundle =>
         LET tok == args[argIx + 1]
         IN  /\ \A j \in 1..Len(NewCalls) : NewCalls[j].opt \notin LoneDash
             /\ (tok = <<"-", "k", "-">> /\ err' = NoErr) =>
                   (NewCalls # <<>> /\ ValueGiven = <<"-">>
                      /\ argIx' = argIx + 1)]_vars

----------------------------------------------------------------------------
\* how many characters behind the dash of tok are letters of the table,
\* counted from the first up to the first that is not
LeadingLetters(tok) ==
    CHOOSE n \in 0..(Len(tok) - 1) :
        /\ \A j \in 2..(n + 1) : tok[j] \in DOMAIN short
        /\ n + 1 < Len(tok) => tok[n + 2] \notin DOMAIN short

(* C29: a step that scans a short bundle and does not fail has used every  *)
(* character of the token: either all characters behind the dash are       *)
(* option letters, or what follows the letters has been handed, as it is,  *)
(* to the handler of a value option of the bundle.                         *)
C29_AsStated ==
    [][(AtBundle /\ err' = NoErr) =>
         LET tok == args[argIx + 1]
             n == LeadingLetters(tok)
         IN  \/ n = Len(tok) - 1
             \/ /\ NewCalls # <<>>
                /\ Deref(options, NewCalls[Len(NewCalls)].opt).Value
                /\ ValueGiven = SubSeq(tok, n + 2, Len(tok))]_vars

----------------------------------------------------------------------------
(* The argument lists of the claim about the order of invocations: the     *)
(* value option o/opt in its four forms (--opt=a, --opt a, -ob, -o b), and *)
(* in a bundle behind a flag.                                              *)

tO == <<"-", "o">>
tOB == <<"-", "o", "b">>
tNO == <<"-", "n", "o">>

TokensOrder == {tTerm, tA, tB, tOpt, tOptA, tO, tOB, tNO}

InitOrder == InitWith(Tables, TokensOrder)
SpecOrder == InitOrder /\ [][Next]_vars

\* the token tok is what causes an invocation of the descriptor d: it
\* names d as a long option, has d's letter in its bundle, is the lone
\* dash of d, or is a non-option argument and d the default descriptor
Causes(tok, d) ==
    LET o == Deref(options, d)
    IN  \/ LongShaped(tok) /\ o.Long # NoLong /\ LongName(tok) = o.Long
        \/ /\ Dashed(tok) /\ ~LongShaped(tok) /\ tok # <<"-", "-">>
           /\ o.Short # NoShort
           /\ \E j \in 1..Len(tok) : (j > 1 \/ Len(tok) = 1) /\ tok[j] = o.Short
        \/ ~Dashed(tok) /\ d = defaultOption

\* the values of the invocations of d so far, in the order they were made
ValuesOf(d) ==
    LET OfD(c) == c.opt = d
        sel == SelectSeq(calls, OfD)
    IN  [j \in 1..Len(sel) |-> sel[j].value]

(* C30: every step appends its invocations to the ones made before, and    *)
(* the invocations of a step are caused by the one token the step reads as *)
(* a token; tokens are read from left to right, so the invocations follow  *)
(* the order of the tokens.  Within a bundle only the value option is      *)
(* deferred: it is invoked last, after the flags of the bundle.            *)
C30_ArgumentOrder ==
    [][/\ CallsGrow
       /\ NewCalls # <<>> =>
            /\ pc = "loop" /\ argIx < Len(args)
            /\ reads'[Len(reads) + 1] = [ix |-> argIx, as |-> "token"]
            /\ \A j \in 1..Len(reads) : reads[j].ix < argIx
            /\ \A j \in 1..Len(NewCalls) :
                  /\ Causes(args[argIx + 1], NewCalls[j].opt)
                  /\ Deref(options, NewCalls[j].opt).Value =>
                        j = Len(NewCalls)]_vars

\* ["-ob", "--opt", "a"] with opt Repeatable: its handler has received b
\* and then a
C30_Witness ==
    /\ pc = "done"
    /\ options = TblRep
    /\ args = <<tOB, tOpt, tA>>
    /\ err = NoErr
    /\ ValuesOf(ixO) = <<tB, tA>>
    /\ Len(calls) = 2

----------------------------------------------------------------------------
(* The argument lists of the claim about splitting a bundle: two flags run *)
(* together (-nr, -nn), and the value option k with its value attached:    *)
(* -k2 and -ka, whose values start with a character no descriptor has, and *)
(* -k- and -k-2, whose values start with a dash.                           *)

TokensSplit ==
    {tTerm, tA, tOpt, tK2, tKDash,
     <<"-", "n", "r">>, <<"-", "n", "n">>,
     <<"-", "k", "a">>, <<"-", "k", "-", "2">>}

InitSplit == InitWith(Tables, TokensSplit)
SpecSplit == InitSplit /\ [][Next]_vars

\* c is an option letter of the table: the short name of a descriptor
\* other than the lone dash, which is a token and not a letter
OptionLetter(c) == c # "-" /\ c \in DOMAIN short

\* c is the letter of a flag, an option that takes no value
PlainFlag(c) == OptionLetter(c) /\ ~Deref(options, short[c]).Value

\* c is the letter of an option that takes a value
ValueLetter(c) == OptionLetter(c) /\ Deref(options, short[c]).Value

\* tok is -nr, with n and r flags
TwoFlags(tok) ==
    Len(tok) = 3 /\ tok[1] = "-" /\ PlainFlag(tok[2]) /\ PlainFlag(tok[3])

\* tok is -kV, with k a value option and V not empty
ValueAttached(tok) == Len(tok) >= 3 /\ tok[1] = "-" /\ ValueLetter(tok[2])

\* args with the token -nr at p written as the two tokens -n, -r
SplitFlags(p) ==
    SubSeq(args, 1, p - 1)
      \o << <<"-", args[p][2]>>, <<"-", args[p][3]>> >>
      \o SubSeq(args, p + 1, Len(args))

\* args with the token -kV at p written as the two tokens -k, V
SplitValue(p) ==
    SubSeq(args, 1, p - 1)
      \o << <<"-", args[p][2]>>, SubSeq(args[p], 3, Len(args[p])) >>
      \o SubSeq(args, p + 1, Len(args))

(* C31 as stated: at a position the scan reads as an option token, -nr     *)
(* with n and r flags gives the same handler invocations, error and        *)
(* returned slice as -n, -r in its place; and -kV with k a value option    *)
(* gives the same as -k, V whenever the first character of V is not an     *)
(* option letter (the dash, which ends the run of letters, is none).       *)
C31_AsStated ==
    pc = "done" =>
      \A p \in 1..Len(args) :
        ReadAsToken(p) =>
          /\ TwoFlags(args[p]) =>
                SameOutcome(GetOpts(options, SplitFlags(p)))
          /\ (ValueAttached(args[p]) /\ ~OptionLetter(args[p][3])) =>
                SameOutcome(GetOpts(options, SplitValue(p)))

\* what the bundle loop does: the two ways of writing agree for flags, and
\* for a value whose first character is no key of the short index, where
\* the dash of a lone-dash descriptor is a key like the letters
SplitAgrees ==
    pc = "done" =>
      \A p \in 1..Len(args) :
        ReadAsToken(p) =>
          /\ TwoFlags(args[p]) =>
                SameOutcome(GetOpts(options, SplitFlags(p)))
          /\ (ValueAttached(args[p]) /\ args[p][3] \notin DOMAIN short) =>
                SameOutcome(GetOpts(options, SplitValue(p)))

====
